---------------------------- MODULE Spec2Model ----------------------------
(***************************************************************************)
(* A model of the data-aggregation-with-caching layer (src/github_api.py)  *)
(* and of the recommendation engine (src/main.py) of OSM-Model.            *)
(*                                                                         *)
(* Strings are sequences of one-character strings, so that the cache-key   *)
(* sanitisation of _get_cache_path is computed character by character.     *)
(* JSON values are records [t |-> type, v |-> sequence]: a list's elements,*)
(* a mapping's keys, a string's characters; JNull is Python's None.        *)
(* Time is in whole seconds.                                               *)
(***************************************************************************)
EXTENDS Integers, Sequences, FiniteSets, TLC

VARIABLES
    clock,       \* datetime.now().timestamp() / time.time()
    ticks,       \* number of times the environment let time pass
    calls,       \* number of fetch-method invocations started
    cache,       \* the files of cache_dir: path -> [timestamp, data]
    puts,        \* history: path -> [at, v] of the last _save_to_cache
    rate_limit,  \* self.rate_limit: [remaining, reset]
    pc,          \* where the running fetch method stands
    cur,         \* the running fetch method's locals
    last,        \* history: the last event (call, guard, request)
    ret          \* history: what the last finished fetch method returned

VARIABLES
    keyA, keyB,    \* two logical cache keys built by the fetch methods
    pathA, pathB   \* the cache files _get_cache_path gives them

VARIABLES
    epc,            \* where analyze_github_user stands
    repos_seen,     \* the repositories of github_issues.json iterated so far
    processed,      \* number of issues of the file processed so far
    issue_matches,  \* the list issue_matches
    candidates,     \* history: issue_matches as it was before the sort
    result,         \* what analyze_github_user returned
    eout            \* history: the last issue processed and what became of it

VARIABLES
    cpc,      \* where _call_gemini_api stands
    attempt,  \* the loop variable of its retry loop
    posts,    \* number of POSTs made
    slept,    \* seconds slept since the last POST was answered
    prev,     \* the answer to the last POST
    lev,      \* history: the last sleep or POST
    api       \* what _call_gemini_api returned

VARIABLES
    file,    \* one cache file: whether it exists, and its bytes
    wr,      \* each writing process: where it stands, its file offset
    obs,     \* history: what the last _get_from_cache read of the file
    closed   \* history: the writers in the order they closed the file

VARIABLES
    given,         \* the profile and repositories the fetch methods returned
    tp_in,         \* the same data as listed for the current run
    ppc,           \* where get_user_tech_profile stands
    tech_profile,  \* its four sets, each in its iteration order
    outputs        \* history: what the completed runs returned

VARIABLES
    user_skills_data,  \* the four skill lists prepared at lines 87-92
    returned,          \* what the caller of analyze_github_user got
    failure            \* history: the failure the run met, "none" if none

\* GitHubFetcher.get_user_repositories (github_fetcher.py)
VARIABLES
    fpc,              \* where the method stands
    listed_repos,     \* `repos`, what the client listed
    idx,              \* the position of the loop in listed_repos
    language_stats,   \* `languages` of the repository at idx
    enhanced_repos,   \* the list being built
    issued,           \* the client calls made so far and how each ended
    enhanced          \* what the method gave back

\* one pass of the issue loop, call by call (main.py lines 112-135)
VARIABLES
    lpc,                 \* where the loop stands
    issue_no,            \* the issues read so far
    issue_requirements,  \* what analyze_issue returned for the issue
    timeline             \* history: the delays and the calls, as they happen

\* the fetches of one run of analyze_github_user (main.py lines 57-79)
VARIABLES
    profile_pass,    \* 0: not started, 1: line 59, 2: line 75, 3: over
    fetching,        \* the position in ProfileResources, 6 after the last
    store,           \* the cache: what it holds of each profile resource
    requested,       \* history: upstream requests of the run, per resource
    profiles_built   \* history: the profile dicts built (lines 27-33)

\* the generator chunked(lst, n) (fetch_issues.py)
VARIABLES
    lst,        \* the list given
    size,       \* `n`
    chunk_at,   \* `i`, the offset of the next chunk
    yielded,    \* the chunks yielded so far
    exhausted   \* the generator has returned

\* fetch_issues (fetch_issues.py)
VARIABLES
    ipc,          \* where fetch_issues stands
    configured,   \* `repos`, the configured list
    batch_from,   \* the offset of the next batch in the list
    all_issues,   \* the issue store: what is kept under each name
    queried       \* history: the repositories whose issues were returned

\* GitHubFetcher.get_user_profile (github_fetcher.py)
VARIABLES
    upc,           \* where the method stands
    profile_data,  \* what the base user lookup gave
    gathered,      \* what the four further calls gave, in their order
    up_calls,      \* history: the client calls made and how each ended
    user_profile   \* what the method gave back

srcVars == <<clock, ticks, calls, cache, puts, rate_limit, pc, cur, last, ret>>
keyVars == <<keyA, keyB, pathA, pathB>>
engVars == <<epc, repos_seen, processed, issue_matches, candidates, result, eout>>
llmVars == <<cpc, attempt, posts, slept, prev, lev, api>>
raceVars == <<file, wr, obs, closed>>
profVars == <<given, tp_in, ppc, tech_profile, outputs>>
topVars == <<user_skills_data, returned, failure>>
enrVars == <<fpc, listed_repos, idx, language_stats, enhanced_repos, issued, enhanced>>
loopVars == <<lpc, issue_no, issue_requirements, timeline>>
runVars == <<profile_pass, fetching, store, requested, profiles_built>>
chunkVars == <<lst, size, chunk_at, yielded, exhausted>>
issVars == <<ipc, configured, batch_from, all_issues, queried>>
upVars == <<upc, profile_data, gathered, up_calls, user_profile>>
vars == <<srcVars, keyVars, engVars, llmVars, raceVars, profVars, topVars, enrVars, loopVars, runVars, chunkVars, issVars, upVars>>

\* what the operations of one component leave alone
notSrcVars == <<keyVars, engVars, llmVars, raceVars, profVars, topVars, enrVars, loopVars, runVars, chunkVars, issVars, upVars>>
notKeyVars == <<srcVars, engVars, llmVars, raceVars, profVars, topVars, enrVars, loopVars, runVars, chunkVars, issVars, upVars>>
notEngVars == <<srcVars, keyVars, llmVars, raceVars, profVars, topVars, enrVars, loopVars, runVars, chunkVars, issVars, upVars>>
notLlmVars == <<srcVars, keyVars, engVars, raceVars, profVars, topVars, enrVars, loopVars, runVars, chunkVars, issVars, upVars>>
notRaceVars == <<srcVars, keyVars, engVars, llmVars, profVars, topVars, enrVars, loopVars, runVars, chunkVars, issVars, upVars>>
notProfVars == <<srcVars, keyVars, engVars, llmVars, raceVars, topVars, enrVars, loopVars, runVars, chunkVars, issVars, upVars>>
notTopVars == <<srcVars, keyVars, engVars, llmVars, raceVars, profVars, enrVars, loopVars, runVars, chunkVars, issVars, upVars>>
notEnrVars == <<srcVars, keyVars, engVars, llmVars, raceVars, profVars, topVars, loopVars, runVars, chunkVars, issVars, upVars>>
notLoopVars == <<srcVars, keyVars, engVars, llmVars, raceVars, profVars, topVars, enrVars, runVars, chunkVars, issVars, upVars>>
notRunVars == <<srcVars, keyVars, engVars, llmVars, raceVars, profVars, topVars, enrVars, loopVars, chunkVars, issVars, upVars>>
notChunkVars == <<srcVars, keyVars, engVars, llmVars, raceVars, profVars, topVars, enrVars, loopVars, runVars, issVars, upVars>>
notIssVars == <<srcVars, keyVars, engVars, llmVars, raceVars, profVars, topVars, enrVars, loopVars, runVars, chunkVars, upVars>>
notUpVars == <<srcVars, keyVars, engVars, llmVars, raceVars, profVars, topVars, enrVars, loopVars, runVars, chunkVars, issVars>>

-----------------------------------------------------------------------------
(* Bounds of the model *)

MaxTicks == 1
MaxCalls == 2

(* Program constants *)

cache_duration == 3600
LowWaterMark == 10
SafetyMargin == 10

-----------------------------------------------------------------------------
(* Strings *)

Letters == {"a","b","c","d","e","f","g","h","i","j","k","l","m","n","o","p",
            "q","r","s","t","u","v","w","x","y","z"}
\* a Python str as the sequence of its characters
Chars(s) == [i \in 1..Len(s) |-> SubSeq(s, i, i)]

DigitChars == <<"0","1","2","3","4","5","6","7","8","9">>
Digits == {DigitChars[i] : i \in 1..10}

\* str.isalnum() on the characters the model uses
isalnum(c) == c \in Letters \cup Digits

RECURSIVE DecStr(_)
\* f"{limit}" for a non-negative int
DecStr(n) == IF n < 10 THEN <<DigitChars[n + 1]>>
             ELSE DecStr(n \div 10) \o <<DigitChars[(n % 10) + 1]>>

cache_dir == Chars("github_cache")

-----------------------------------------------------------------------------
(* JSON values *)

JNull == [t |-> "null", v |-> <<>>]
JList(s) == [t |-> "list", v |-> s]
JDict(s) == [t |-> "dict", v |-> s]
JStr(s) == [t |-> "str", v |-> s]

NotNone(x) == x.t # "null"

\* Python truthiness: None, 0, [], {} and "" are falsy
Truthy(x) ==
    IF x.t = "null" THEN FALSE
    ELSE IF x.t = "num" THEN x.v # 0
    ELSE x.v # <<>>

-----------------------------------------------------------------------------
(* Disk cache: src/github_api.py, lines 27-52 *)

\* safe_key = "".join(c for c in key if c.isalnum() or c in ('-', '_'))
SafeKey(key) == SelectSeq(key, LAMBDA c : isalnum(c) \/ c \in {"-", "_"})

\* os.path.join(self.cache_dir, f"{safe_key}.json")
GetCachePath(key) ==
    cache_dir \o <<"/">> \o SafeKey(key) \o Chars(".json")

FreshAtTTL(now, timestamp) == now - timestamp <= cache_duration

\* datetime.now().timestamp() - cached_data['timestamp'] < self.cache_duration
Fresh(now, timestamp) == now - timestamp < cache_duration

\* _get_from_cache on the files `files` at time `now`
GetFromCache(files, key, now) ==
    LET path == GetCachePath(key) IN
    IF path \in DOMAIN files /\ Fresh(now, files[path].timestamp)
    THEN files[path].data
    ELSE JNull

SaveIfAbsent(files, key, data, now) ==
    LET path == GetCachePath(key) IN
    [p \in DOMAIN files \cup {path} |->
        IF p \in DOMAIN files THEN files[p]
        ELSE [timestamp |-> now, data |-> data]]
\* _save_to_cache: the files after writing `data` under `key` at time `now`
SaveToCache(files, key, data, now) ==
    LET path == GetCachePath(key) IN
    [p \in DOMAIN files \cup {path} |->
        IF p = path THEN [timestamp |-> now, data |-> data] ELSE files[p]]

\* history of the puts, kept beside the files
RecordPut(h, key, data, now) ==
    LET path == GetCachePath(key) IN
    [p \in DOMAIN h \cup {path} |->
        IF p = path THEN [at |-> now, v |-> data] ELSE h[p]]

-----------------------------------------------------------------------------
(* Rate-limit guard: src/github_api.py, lines 54-69 *)

\* what the quota endpoint may answer at time `now`: a transport error, a
\* non-200 status, or the core quota
Remainings == {5, 10, 50}
ProbeOutcomes(now) ==
    {[k |-> "error"], [k |-> "status"]}
    \cup {[k |-> "ok", remaining |-> r, reset |-> now + 20] : r \in Remainings}

\* _check_rate_limit, for an answer that is not a transport error
CheckRateLimit(o) ==
    IF o.k = "ok" THEN [remaining |-> o.remaining, reset |-> o.reset]
    ELSE [remaining |-> 0, reset |-> 0]

WaitTimeAtOrBelowMark(rl, now) ==
    IF rl.remaining <= LowWaterMark
    THEN LET w == (rl.reset - now) + SafetyMargin IN IF w > 0 THEN w ELSE 0
    ELSE 0

\* the time _wait_for_rate_limit sleeps after probing `rl` at time `now`
WaitTime(rl, now) ==
    IF rl.remaining < LowWaterMark
    THEN LET w == (rl.reset - now) + SafetyMargin IN IF w > 0 THEN w ELSE 0
    ELSE 0

-----------------------------------------------------------------------------
(* Source client: src/github_api.py, lines 71-524 *)

Usernames == {Chars("ab")}
RepoNames == {Chars("c")}

SimpleMethods == {"get_user_data", "get_pinned_repositories",
                  "get_profile_readme", "get_user_events", "get_user_gists",
                  "get_repo_languages"}

\* the cache keys of the fetch methods
UserDataKey(u) == Chars("user_data_") \o u
UserReposKey(u, limit) == Chars("user_repos_") \o u \o <<"_">> \o DecStr(limit)
RepoIssuesKey(owner_repo, limit) ==
    Chars("repo_issues_") \o owner_repo \o <<"_">> \o DecStr(limit)
PinnedReposKey(u) == Chars("pinned_repos_") \o u
ProfileReadmeKey(u) == Chars("profile_readme_") \o u
UserEventsKey(u, limit) == Chars("user_events_") \o u \o <<"_">> \o DecStr(limit)
UserGistsKey(u) == Chars("user_gists_") \o u
RepoLanguagesKey(u, r) == Chars("repo_languages_") \o u \o <<"_">> \o r
TechStackKey(u, r) == Chars("tech_stack_") \o u \o <<"_">> \o r

\* the value a fetch method returns when it has nothing
Empty(m) ==
    CASE m \in {"get_user_data", "get_repo_languages", "detect_tech_stack"}
            -> JDict(<<>>)
      [] m = "get_profile_readme" -> JNull
      [] OTHER -> JList(<<>>)

\* the bodies a 200 answer of the upstream service may carry, per method
Bodies(m) ==
    CASE m = "get_user_data" -> {<<"login", "name", "bio", "id">>}
      [] m = "get_pinned_repositories" -> {<<>>, <<"pinned1">>}
      [] m = "get_profile_readme" -> {<<>>, Chars("hi")}
      [] m = "get_user_events" -> {<<>>, <<"PushEvent">>}
      [] m = "get_user_gists" -> {<<>>, <<"gist1">>}
      [] m = "get_repo_languages" -> {<<>>, <<"Python">>}

\* the field subset a simple fetch method keeps of a 200 body
Shape(m, body) ==
    CASE m = "get_user_data" ->
            JDict(<<"name", "bio", "location", "company", "public_repos">>)
      [] m = "get_profile_readme" -> JStr(body)
      [] m = "get_repo_languages" -> JDict(body)
      [] OTHER -> JList(body)

Idle == [method |-> "none", key |-> <<>>, stage |-> "none", fresh |-> FALSE,
         entry |-> JNull, probes |-> 0, requests |-> 0, faults |-> {},
         todo |-> <<>>, acc |-> <<>>, files |-> <<>>, detected |-> <<>>,
         asked |-> <<>>]

NoEvent == [ev |-> "none"]
NoReturn == [method |-> "none"]

\* the fetch method ends: `raised` when an exception leaves it
Return(c, value, raised) ==
    /\ pc' = "idle"
    /\ cur' = Idle
    /\ ret' = [method |-> c.method, key |-> c.key, value |-> value,
               raised |-> raised, fresh |-> c.fresh, entry |-> c.entry,
               probes |-> c.probes, requests |-> c.requests,
               faults |-> c.faults, asked |-> c.asked]

RaisedToCaller(m, stage) == [caught |-> FALSE, goes_on |-> FALSE, value |-> JNull]

\* the except clause that a network error at `stage` of method m reaches: the
\* method's own handler returns the empty value; the manifest requests of
\* detect_tech_stack have an inner handler that goes on (lines 487, 502)
OnNetworkError(m, stage) ==
    IF m = "detect_tech_stack" /\ stage \in {"package_json", "pubspec_yaml"}
    THEN [caught |-> TRUE, goes_on |-> TRUE, value |-> JNull]
    ELSE [caught |-> TRUE, goes_on |-> FALSE, value |-> Empty(m)]

\* a network error at the current stage that ends the method
Fail(c) ==
    LET h == OnNetworkError(c.method, c.stage) IN
    Return([c EXCEPT !.faults = @ \cup {c.stage}], h.value, ~h.caught)

\* the first lines of every fetch method: look the key up, return a truthy
\* cached value, otherwise go on to the guard
Enter(m, key) ==
    LET path == GetCachePath(key)
        cached == GetFromCache(cache, key, clock)
        fresh == path \in DOMAIN cache
                 /\ clock - cache[path].timestamp < cache_duration
        c == [Idle EXCEPT !.method = m, !.key = key, !.stage = "main",
                          !.fresh = fresh,
                          !.entry = IF fresh THEN cache[path].data ELSE JNull]
    IN
    /\ pc = "idle"
    /\ calls < MaxCalls
    /\ ret.method \in {"none", m}
    /\ calls' = calls + 1
    /\ last' = [ev |-> "call", method |-> m, key |-> key, path |-> path,
                at |-> clock, cached |-> cached]
    /\ IF Truthy(cached)
       THEN Return(c, cached, FALSE)
       ELSE pc' = "guard" /\ cur' = c /\ ret' = ret
    /\ UNCHANGED <<clock, ticks, cache, puts, rate_limit>>
    /\ UNCHANGED notSrcVars

GetUserData(u) == Enter("get_user_data", UserDataKey(u))
GetPinnedRepositories(u) == Enter("get_pinned_repositories", PinnedReposKey(u))
GetProfileReadme(u) == Enter("get_profile_readme", ProfileReadmeKey(u))
GetUserEvents(u, limit) == Enter("get_user_events", UserEventsKey(u, limit))
GetUserGists(u) == Enter("get_user_gists", UserGistsKey(u))
GetRepoLanguages(u, r) == Enter("get_repo_languages", RepoLanguagesKey(u, r))

\* where a fetch method goes after its guard returned
AfterGuard(c) == IF c.stage = "issue_item" THEN "item" ELSE "request"

\* self._wait_for_rate_limit(): probe the quota, sleep if it is low
WaitForRateLimit ==
    /\ pc = "guard"
    /\ \E o \in ProbeOutcomes(clock) :
          IF o.k = "error"
          THEN /\ Fail([cur EXCEPT !.stage = "probe", !.probes = @ + 1])
               /\ last' = [ev |-> "probe_error"]
               /\ UNCHANGED <<clock, rate_limit>>
          ELSE LET rl == CheckRateLimit(o)
                   wait == WaitTime(rl, clock)
               IN /\ rate_limit' = rl
                  /\ clock' = clock + wait
                  /\ last' = [ev |-> "guard", at |-> clock, slept |-> wait]
                  /\ pc' = AfterGuard(cur)
                  /\ cur' = [cur EXCEPT !.probes = @ + 1]
                  /\ ret' = ret
    /\ UNCHANGED <<ticks, calls, cache, puts>>
    /\ UNCHANGED notSrcVars

\* history: the request of the current stage got the answer o; the topics
\* and the sub-directory requests go to one endpoint per item left in todo
Asked(c, o) ==
    [c EXCEPT !.requests = @ + 1,
              !.asked = Append(@, [stage |-> c.stage,
                                   item |-> IF c.stage \in {"topics", "subdir"}
                                            THEN Len(c.todo) ELSE 0,
                                   k |-> o.k])]

\* an upstream request is issued now: the history of it
Issued(c) == [ev |-> "request", method |-> c.method, stage |-> c.stage,
              at |-> clock, guarded |-> last.ev = "guard"]

\* the cache after the method saved `data` under its key
Saved(c, data) ==
    /\ cache' = SaveToCache(cache, c.key, data, clock)
    /\ puts' = RecordPut(puts, c.key, data, clock)

\* the answers of the upstream service to a request: a transport error, a
\* non-200 status, or 200 with a body
Answers(bodies) ==
    {[k |-> "error"], [k |-> "status", code |-> 404]}
    \cup {[k |-> "ok", body |-> b] : b \in bodies}

\* the request and the rest of a fetch method that makes one request
SimpleFetch ==
    /\ pc = "request"
    /\ cur.method \in SimpleMethods
    /\ last' = Issued(cur)
    /\ \E o \in Answers(Bodies(cur.method)) :
       LET c == Asked(cur, o) IN
          CASE o.k = "error" -> Fail(c) /\ UNCHANGED <<cache, puts>>
            [] o.k = "status" ->
                  Return(c, Empty(c.method), FALSE) /\ UNCHANGED <<cache, puts>>
            [] o.k = "ok" ->
                  IF c.method = "get_profile_readme" /\ o.body = <<>>
                  THEN Return(c, JNull, FALSE) /\ UNCHANGED <<cache, puts>>
                  ELSE /\ Saved(c, Shape(c.method, o.body))
                       /\ Return(c, Shape(c.method, o.body), FALSE)
    /\ UNCHANGED <<clock, ticks, calls, rate_limit>>
    /\ UNCHANGED notSrcVars

-----------------------------------------------------------------------------
(* get_user_repositories: src/github_api.py, lines 102-139 *)

DefaultRepoLimit == 5
RepoListBodies == {<<>>, <<"r1", "r2">>}
TopicBodies == {<<"web">>}

GetUserRepositories(u, limit) ==
    Enter("get_user_repositories", UserReposKey(u, limit))

\* GET /users/{username}/repos and what follows it
UserReposFetch ==
    /\ pc = "request"
    /\ cur.method = "get_user_repositories"
    /\ cur.stage = "main"
    /\ last' = Issued(cur)
    /\ \E o \in Answers(RepoListBodies) :
       LET c == Asked(cur, o) IN
          CASE o.k = "error" -> Fail(c) /\ UNCHANGED <<cache, puts>>
            [] o.k = "status" ->
                  Return(c, Empty(c.method), FALSE) /\ UNCHANGED <<cache, puts>>
            [] o.k = "ok" ->
                  IF o.body = <<>>
                  THEN Saved(c, JList(<<>>)) /\ Return(c, JList(<<>>), FALSE)
                  ELSE /\ pc' = "guard"
                       /\ cur' = [c EXCEPT !.stage = "topics", !.todo = o.body]
                       /\ UNCHANGED <<cache, puts, ret>>
    /\ UNCHANGED <<clock, ticks, calls, rate_limit>>
    /\ UNCHANGED notSrcVars

\* GET /repos/{username}/{repo}/topics for the next repository of the list
TopicsFetch ==
    /\ pc = "request"
    /\ cur.method = "get_user_repositories"
    /\ cur.stage = "topics"
    /\ last' = Issued(cur)
    /\ \E o \in Answers(TopicBodies) :
       LET c == Asked(cur, o) IN
          IF o.k = "error"
          THEN Fail(c) /\ UNCHANGED <<cache, puts>>
          ELSE LET topics == IF o.k = "ok" THEN o.body ELSE <<>>
                   repos == Append(c.acc, [name |-> Head(c.todo),
                                           topics |-> topics])
               IN IF Tail(c.todo) = <<>>
                  THEN Saved(c, JList(repos)) /\ Return(c, JList(repos), FALSE)
                  ELSE /\ pc' = "guard"
                       /\ cur' = [c EXCEPT !.todo = Tail(@), !.acc = repos]
                       /\ UNCHANGED <<cache, puts, ret>>
    /\ UNCHANGED <<clock, ticks, calls, rate_limit>>
    /\ UNCHANGED notSrcVars

-----------------------------------------------------------------------------
(* get_repository_issues: src/github_api.py, lines 141-182 *)

DefaultIssueLimit == 30
OwnerRepos == {Chars("ab/c")}
IssueListBodies == {<<>>, <<"i1", "i2">>}

\* if '/' not in owner_repo: owner_repo = f"facebook/{owner_repo}"
QualifiedRepo(owner_repo) ==
    IF \E i \in 1..Len(owner_repo) : owner_repo[i] = "/"
    THEN owner_repo
    ELSE Chars("facebook/") \o owner_repo

GetRepositoryIssues(owner_repo, limit) ==
    Enter("get_repository_issues",
          RepoIssuesKey(QualifiedRepo(owner_repo), limit))

\* GET /repos/{owner_repo}/issues and what follows it
RepoIssuesFetch ==
    /\ pc = "request"
    /\ cur.method = "get_repository_issues"
    /\ last' = Issued(cur)
    /\ \E o \in Answers(IssueListBodies) :
       LET c == Asked(cur, o) IN
          CASE o.k = "error" -> Fail(c) /\ UNCHANGED <<cache, puts>>
            [] o.k = "status" ->
                  Return(c, Empty(c.method), FALSE) /\ UNCHANGED <<cache, puts>>
            [] o.k = "ok" ->
                  IF o.body = <<>>
                  THEN Saved(c, JList(<<>>)) /\ Return(c, JList(<<>>), FALSE)
                  ELSE /\ pc' = "guard"
                       /\ cur' = [c EXCEPT !.stage = "issue_item",
                                           !.todo = o.body]
                       /\ UNCHANGED <<cache, puts, ret>>
    /\ UNCHANGED <<clock, ticks, calls, rate_limit>>
    /\ UNCHANGED notSrcVars

\* the body of the loop over the issues, after its guard: no request is made
IssueItem ==
    /\ pc = "item"
    /\ LET issues == Append(cur.acc, Head(cur.todo)) IN
       IF Tail(cur.todo) = <<>>
       THEN Saved(cur, JList(issues)) /\ Return(cur, JList(issues), FALSE)
       ELSE /\ pc' = "guard"
            /\ cur' = [cur EXCEPT !.todo = Tail(@), !.acc = issues]
            /\ UNCHANGED <<cache, puts, ret>>
    /\ UNCHANGED <<clock, ticks, calls, rate_limit, last>>
    /\ UNCHANGED notSrcVars

-----------------------------------------------------------------------------
(* detect_tech_stack: src/github_api.py, lines 372-524 *)

UpperChars == Chars("ABCDEFGHIJKLMNOPQRSTUVWXYZ")
LowerChars == Chars("abcdefghijklmnopqrstuvwxyz")

\* str.lower()
LowerChar(c) ==
    IF \E i \in 1..26 : UpperChars[i] = c
    THEN LowerChars[CHOOSE i \in 1..26 : UpperChars[i] = c]
    ELSE c
Lower(s) == [i \in 1..Len(s) |-> LowerChar(s[i])]

\* sub in s, for strings
Contains(s, sub) ==
    \E i \in 0..(Len(s) - Len(sub)) : \A j \in 1..Len(sub) : s[i + j] = sub[j]

\* x in xs, for a list
Has(xs, x) == \E i \in 1..Len(xs) : xs[i] = x

\* tech_indicators (lines 379-400), in the order of the dict
tech_indicators == <<
    [tech |-> "JavaScript", ind |-> {Chars("package.json"), Chars(".eslintrc"),
        Chars(".babelrc"), Chars("webpack.config.js"), Chars(".js"), Chars(".jsx")}],
    [tech |-> "TypeScript", ind |-> {Chars("tsconfig.json"), Chars(".ts"),
        Chars(".tsx"), Chars("tslint.json")}],
    [tech |-> "Python", ind |-> {Chars("requirements.txt"), Chars("setup.py"),
        Chars("Pipfile"), Chars("pyproject.toml"), Chars(".py")}],
    [tech |-> "Java", ind |-> {Chars("pom.xml"), Chars("build.gradle"),
        Chars(".java"), Chars("gradle.properties")}],
    [tech |-> "Dart", ind |-> {Chars("pubspec.yaml"), Chars(".dart")}],
    [tech |-> "Flutter", ind |-> {Chars("pubspec.yaml"),
        Chars("android/app/build.gradle"), Chars("ios/Runner.xcodeproj")}],
    [tech |-> "Docker", ind |-> {Chars("Dockerfile"), Chars("docker-compose.yml"),
        Chars(".dockerignore")}],
    [tech |-> "React", ind |-> {Chars("package.json"), Chars(".jsx"),
        Chars(".tsx"), Chars("react"), Chars("react-dom")}],
    [tech |-> "Vue.js", ind |-> {Chars("vue.config.js"), Chars(".vue")}],
    [tech |-> "Angular", ind |-> {Chars("angular.json"), Chars(".angular-cli.json")}],
    [tech |-> "Node.js", ind |-> {Chars("package.json"), Chars("server.js"),
        Chars("app.js"), Chars("index.js")}],
    [tech |-> "Express", ind |-> {Chars("express"), Chars("routes/"), Chars("app.js")}],
    [tech |-> "Django", ind |-> {Chars("manage.py"), Chars("wsgi.py"), Chars("asgi.py")}],
    [tech |-> "Flask", ind |-> {Chars("requirements.txt"), Chars("app.py"),
        Chars("wsgi.py")}],
    [tech |-> "Spring", ind |-> {Chars("pom.xml"), Chars("application.properties"),
        Chars("application.yml")}],
    [tech |-> "CSS", ind |-> {Chars(".scss"), Chars(".sass"), Chars(".less"),
        Chars(".css"), Chars("style.css"), Chars("tailwind.config.js")}],
    [tech |-> "HTML", ind |-> {Chars(".html"), Chars(".htm"), Chars("index.html")}],
    [tech |-> "Mobile", ind |-> {Chars("android/"), Chars("ios/"), Chars("App.js"),
        Chars("MainActivity.java"), Chars("AppDelegate.swift")}],
    [tech |-> "Database", ind |-> {Chars("schema.sql"), Chars("migrations/"),
        Chars("models/"), Chars("repositories/")}],
    [tech |-> "Testing", ind |-> {Chars("test/"), Chars("tests/"), Chars("spec/"),
        Chars("__tests__/"), Chars("jest.config.js"), Chars("pytest.ini")}] >>

\* framework_dependencies (lines 402-415), in the order of the dict
framework_dependencies == <<
    [tech |-> "React", deps |-> {"react", "react-dom", "create-react-app",
                                 "next", "gatsby"}],
    [tech |-> "Vue.js", deps |-> {"vue", "@vue/cli", "nuxt"}],
    [tech |-> "Angular", deps |-> {"@angular/core", "@angular/cli"}],
    [tech |-> "Express", deps |-> {"express"}],
    [tech |-> "Next.js", deps |-> {"next"}],
    [tech |-> "Gatsby", deps |-> {"gatsby"}],
    [tech |-> "NestJS", deps |-> {"@nestjs/core"}],
    [tech |-> "Flutter", deps |-> {"flutter"}],
    [tech |-> "Django", deps |-> {"django"}],
    [tech |-> "Flask", deps |-> {"flask"}],
    [tech |-> "Spring", deps |-> {"spring-boot", "spring-core"}],
    [tech |-> "Mobile", deps |-> {"react-native", "ionic", "cordova", "capacitor"}] >>

\* the paths the tree filter and the file filter of the fallback leave out
ExcludedPaths == {Chars("node_modules/"), Chars("vendor/"), Chars("dist/"),
                  Chars("build/")}
\* the directories the fallback does not list
ExcludedDirs == {Chars("node_modules"), Chars("vendor"), Chars("dist"),
                 Chars("build")}

Excluded(path, patterns) ==
    LET lowered == Lower(path) IN \E x \in patterns : Contains(lowered, x)

RECURSIVE PathsOf(_, _, _)
\* [item['path'] for item in items if item['type'] == type and not excluded]
PathsOf(items, type, patterns) ==
    IF items = <<>> THEN <<>>
    ELSE LET rest == PathsOf(Tail(items), type, patterns) IN
         IF Head(items).type = type /\ ~Excluded(Head(items).path, patterns)
         THEN <<Head(items).path>> \o rest
         ELSE rest

\* detected_tech[tech] = files: a dict keeps the place of a key it has
SetTech(d, tech, files) ==
    IF \E i \in 1..Len(d) : d[i].tech = tech
    THEN [i \in 1..Len(d) |->
            IF d[i].tech = tech THEN [tech |-> tech, files |-> files] ELSE d[i]]
    ELSE Append(d, [tech |-> tech, files |-> files])

\* detected_tech[tech].extend(found), creating the entry when absent
ExtendTech(d, tech, found) ==
    IF \E i \in 1..Len(d) : d[i].tech = tech
    THEN [i \in 1..Len(d) |->
            IF d[i].tech = tech
            THEN [tech |-> tech, files |-> d[i].files \o found] ELSE d[i]]
    ELSE Append(d, [tech |-> tech, files |-> found])

RECURSIVE FrameworksOf(_, _, _)
\* lines 480-482: the frameworks among the declared dependencies
FrameworksOf(i, deps, d) ==
    IF i > Len(framework_dependencies) THEN d
    ELSE LET fw == framework_dependencies[i] IN
         FrameworksOf(i + 1, deps,
            IF \E x \in fw.deps : Has(deps, x)
            THEN SetTech(d, fw.tech, <<Chars("package.json")>>)
            ELSE d)

\* lines 474-486: what a readable package.json adds
PackageJsonTech(deps, d) ==
    LET withFw == FrameworksOf(1, deps, d) IN
    IF deps # <<>> THEN SetTech(withFw, "Node.js", <<Chars("package.json")>>)
    ELSE withFw

\* lines 498-501: what a readable pubspec.yaml adds
PubspecTech(content, d) ==
    LET withFlutter == IF Contains(content, Chars("flutter:"))
                       THEN SetTech(d, "Flutter", <<Chars("pubspec.yaml")>>)
                       ELSE d
    IN SetTech(withFlutter, "Dart", <<Chars("pubspec.yaml")>>)

\* the bodies of the upstream answers
TreeBodies == {
    << [path |-> Chars("package.json"), type |-> "blob"],
       [path |-> Chars("node_modules/x.js"), type |-> "blob"],
       [path |-> Chars("src"), type |-> "tree"] >>,
    << [path |-> Chars("pubspec.yaml"), type |-> "blob"] >> }
ContentsBodies == {
    << [path |-> Chars("package.json"), name |-> Chars("package.json"),
        type |-> "file"],
       [path |-> Chars("src"), name |-> Chars("src"), type |-> "dir"],
       [path |-> Chars("vendor"), name |-> Chars("vendor"), type |-> "dir"] >> }
SubdirBodies == { << [name |-> Chars("app.py"), type |-> "file"],
                     [name |-> Chars("lib"), type |-> "dir"] >> }
PackageBodies == {<<"react">>}
PubspecBodies == {Chars("flutter:")}

\* any file path with an indicator of tech_indicators[i] in it (line 509)
MatchesIndicator(f, i) == \E x \in tech_indicators[i].ind : Contains(f, x)

RECURSIVE ItemsOf(_)
ItemsOf(body) == IF body = <<>> THEN {} ELSE {Head(body)} \cup ItemsOf(Tail(body))

\* the file paths the modelled bodies can yield, and their matches computed
\* once: IndicatorMatch is MatchesIndicator, tabulated on these paths
ModelPaths ==
    {it.path : it \in UNION {ItemsOf(b) : b \in TreeBodies \cup ContentsBodies}}
    \cup {d.name \o <<"/">> \o it.name :
            d \in UNION {ItemsOf(b) : b \in ContentsBodies},
            it \in UNION {ItemsOf(b) : b \in SubdirBodies}}
IndicatorTable ==
    [f \in ModelPaths |->
        [i \in 1..Len(tech_indicators) |-> MatchesIndicator(f, i)]]
IndicatorMatch(f, i) ==
    IF f \in ModelPaths THEN IndicatorTable[f][i] ELSE MatchesIndicator(f, i)

RECURSIVE IndicatorTech(_, _, _)
\* lines 506-514: the technologies whose indicators occur in a file path
IndicatorTech(i, files, d) ==
    IF i > Len(tech_indicators) THEN d
    ELSE LET t == tech_indicators[i]
             found == SelectSeq(files, LAMBDA f : IndicatorMatch(f, i))
         IN IndicatorTech(i + 1, files,
                IF found # <<>> THEN ExtendTech(d, t.tech, found) ELSE d)

RECURSIVE Dedupe(_)
\* list(set(v)): each element once; the order of a set is not specified, the
\* model keeps the order of first occurrence
Dedupe(xs) ==
    IF xs = <<>> THEN <<>>
    ELSE LET init == Dedupe(SubSeq(xs, 1, Len(xs) - 1))
             x == xs[Len(xs)]
         IN IF Has(init, x) THEN init ELSE Append(init, x)

KeepAll(d) == d
\* line 517
CleanUp(d) == [i \in 1..Len(d) |-> [tech |-> d[i].tech, files |-> Dedupe(d[i].files)]]

DetectTechStack(u, r) == Enter("detect_tech_stack", TechStackKey(u, r))

RetryOnce(c, stage) ==
    /\ pc' = "request"
    /\ cur' = IF c.requests < 2 THEN c ELSE [c EXCEPT !.stage = stage]
    /\ UNCHANGED <<cache, puts, ret>>
\* the next request of the method is issued without a guard of its own
Goto(c, stage) ==
    /\ pc' = "request"
    /\ cur' = [c EXCEPT !.stage = stage]
    /\ UNCHANGED <<cache, puts, ret>>

\* lines 505-520: match the indicators, clean up, save and return
Finish(c) ==
    \E d \in {CleanUp(IndicatorTech(1, c.files, c.detected))} :
        Saved(c, JDict(d)) /\ Return(c, JDict(d), FALSE)

\* line 491
AfterPackageJson(c) ==
    IF Has(c.files, Chars("pubspec.yaml"))
    THEN Goto(c, "pubspec_yaml") ELSE Finish(c)

\* line 465
AfterFiles(c) ==
    IF Has(c.files, Chars("package.json"))
    THEN Goto(c, "package_json") ELSE AfterPackageJson(c)

\* the answers to a tree request: the branch may not exist (404), or the
\* tree call may fail otherwise
TreeAnswers ==
    Answers(TreeBodies) \cup {[k |-> "status", code |-> 500]}

\* GET .../git/trees/main?recursive=1 (line 420)
TreeMainFetch ==
    /\ pc = "request"
    /\ cur.method = "detect_tech_stack"
    /\ cur.stage = "main"
    /\ last' = Issued(cur)
    /\ \E o \in TreeAnswers :
       LET c == Asked(cur, o) IN
          CASE o.k = "error" -> Fail(c) /\ UNCHANGED <<cache, puts>>
            [] o.k = "status" ->
                  IF o.code = 404 THEN Goto(c, "tree_master")
                  ELSE Goto(c, "contents")
            [] o.k = "ok" ->
                  AfterFiles([c EXCEPT
                      !.files = PathsOf(o.body, "blob", ExcludedPaths)])
    /\ UNCHANGED <<clock, ticks, calls, rate_limit>>
    /\ UNCHANGED notSrcVars

\* GET .../git/trees/master?recursive=1 (line 427)
TreeMasterFetch ==
    /\ pc = "request"
    /\ cur.method = "detect_tech_stack"
    /\ cur.stage = "tree_master"
    /\ last' = Issued(cur)
    /\ \E o \in Answers(TreeBodies) :
       LET c == Asked(cur, o) IN
          CASE o.k = "error" -> Fail(c) /\ UNCHANGED <<cache, puts>>
            [] o.k = "status" -> Goto(c, "contents")
            [] o.k = "ok" ->
                  AfterFiles([c EXCEPT
                      !.files = PathsOf(o.body, "blob", ExcludedPaths)])
    /\ UNCHANGED <<clock, ticks, calls, rate_limit>>
    /\ UNCHANGED notSrcVars

\* the directories of a contents listing that the fallback looks into
DirsOf(items) ==
    SelectSeq(items, LAMBDA it : it.type = "dir"
                                 /\ ~Excluded(it.path, ExcludedDirs))

\* GET .../contents (line 443)
ContentsFetch ==
    /\ pc = "request"
    /\ cur.method = "detect_tech_stack"
    /\ cur.stage = "contents"
    /\ last' = Issued(cur)
    /\ \E o \in Answers(ContentsBodies) :
       LET c == Asked(cur, o) IN
          CASE o.k = "error" -> Fail(c) /\ UNCHANGED <<cache, puts>>
            [] o.k = "status" -> AfterFiles(c)
            [] o.k = "ok" ->
                  LET c2 == [c EXCEPT
                                !.files = PathsOf(o.body, "file", ExcludedPaths),
                                !.todo = DirsOf(o.body)]
                  IN IF c2.todo = <<>> THEN AfterFiles(c2)
                     ELSE Goto(c2, "subdir")
    /\ UNCHANGED <<clock, ticks, calls, rate_limit>>
    /\ UNCHANGED notSrcVars

RECURSIVE SubdirFiles(_, _)
\* [f"{item['name']}/{subitem['name']}" for subitem in ... if file]
SubdirFiles(dir, items) ==
    IF items = <<>> THEN <<>>
    ELSE LET rest == SubdirFiles(dir, Tail(items)) IN
         IF Head(items).type = "file"
         THEN <<dir.name \o <<"/">> \o Head(items).name>> \o rest
         ELSE rest

\* GET item['url'] for the next sub-directory (line 457)
SubdirFetch ==
    /\ pc = "request"
    /\ cur.method = "detect_tech_stack"
    /\ cur.stage = "subdir"
    /\ last' = Issued(cur)
    /\ \E o \in Answers(SubdirBodies) :
       LET c == Asked(cur, o) IN
          IF o.k = "error"
          THEN Fail(c) /\ UNCHANGED <<cache, puts>>
          ELSE LET c2 == [c EXCEPT
                    !.files = IF o.k = "ok"
                              THEN @ \o SubdirFiles(Head(c.todo), o.body)
                              ELSE @,
                    !.todo = Tail(@)]
               IN IF c2.todo = <<>> THEN AfterFiles(c2)
                  ELSE Goto(c2, "subdir")
    /\ UNCHANGED <<clock, ticks, calls, rate_limit>>
    /\ UNCHANGED notSrcVars

\* GET .../contents/package.json, inside its own try (lines 466-488)
PackageJsonFetch ==
    /\ pc = "request"
    /\ cur.method = "detect_tech_stack"
    /\ cur.stage = "package_json"
    /\ last' = Issued(cur)
    /\ \E o \in Answers(PackageBodies) :
       LET c == Asked(cur, o) IN
          CASE o.k = "error" ->
                  IF OnNetworkError(c.method, c.stage).goes_on
                  THEN AfterPackageJson([c EXCEPT !.faults = @ \cup {c.stage}])
                  ELSE Fail(c) /\ UNCHANGED <<cache, puts>>
            [] o.k = "status" -> AfterPackageJson(c)
            [] o.k = "ok" ->
                  AfterPackageJson([c EXCEPT
                      !.detected = PackageJsonTech(o.body, @)])
    /\ UNCHANGED <<clock, ticks, calls, rate_limit>>
    /\ UNCHANGED notSrcVars

\* GET .../contents/pubspec.yaml, inside its own try (lines 491-503)
PubspecFetch ==
    /\ pc = "request"
    /\ cur.method = "detect_tech_stack"
    /\ cur.stage = "pubspec_yaml"
    /\ last' = Issued(cur)
    /\ \E o \in Answers(PubspecBodies) :
       LET c == Asked(cur, o) IN
          CASE o.k = "error" ->
                  IF OnNetworkError(c.method, c.stage).goes_on
                  THEN Finish([c EXCEPT !.faults = @ \cup {c.stage}])
                  ELSE Fail(c) /\ UNCHANGED <<cache, puts>>
            [] o.k = "status" -> Finish(c)
            [] o.k = "ok" ->
                  Finish([c EXCEPT !.detected = PubspecTech(o.body, @)])
    /\ UNCHANGED <<clock, ticks, calls, rate_limit>>
    /\ UNCHANGED notSrcVars

-----------------------------------------------------------------------------
\* time passes between two invocations
Delays == {3599, 3600}

\* time.time() when the client is constructed: seconds since 1970, far above
\* the 10 s margin of the guard
Epoch == 1000
Tick ==
    /\ pc = "idle"
    /\ ticks < MaxTicks
    /\ \E d \in Delays : clock' = clock + d
    /\ ticks' = ticks + 1
    /\ UNCHANGED <<calls, cache, puts, rate_limit, pc, cur, last, ret>>
    /\ UNCHANGED notSrcVars

SrcInit ==
    /\ clock = Epoch
    /\ ticks = 0
    /\ calls = 0
    /\ cache = <<>>
    /\ puts = <<>>
    /\ rate_limit = [remaining |-> 5, reset |-> 20]
    /\ pc = "idle"
    /\ cur = Idle
    /\ last = NoEvent
    /\ ret = NoReturn

SrcNext ==
    \/ Tick
    \/ \E u \in Usernames : GetUserData(u)
    \/ \E u \in Usernames : GetPinnedRepositories(u)
    \/ \E u \in Usernames : GetProfileReadme(u)
    \/ \E u \in Usernames : GetUserEvents(u, 30)
    \/ \E u \in Usernames : GetUserGists(u)
    \/ \E u \in Usernames, r \in RepoNames : GetRepoLanguages(u, r)
    \/ \E u \in Usernames : GetUserRepositories(u, DefaultRepoLimit)
    \/ \E r \in OwnerRepos : GetRepositoryIssues(r, DefaultIssueLimit)
    \/ \E u \in Usernames, r \in RepoNames : DetectTechStack(u, r)
    \/ WaitForRateLimit
    \/ SimpleFetch
    \/ UserReposFetch
    \/ TopicsFetch
    \/ RepoIssuesFetch
    \/ IssueItem
    \/ TreeMainFetch
    \/ TreeMasterFetch
    \/ ContentsFetch
    \/ SubdirFetch
    \/ PackageJsonFetch
    \/ PubspecFetch

-----------------------------------------------------------------------------
(* The cache keys the fetch methods build, and their files *)

KeyUsers == {Chars("a"), Chars("ab")}
KeyRepos == {Chars("bc"), Chars("c"), Chars("b.c")}
KeyLimits == {5, 30}

\* the logical keys of lines 73, 104, 147, 186, 253, 278, 317, 351, 374
LogicalKeys ==
    {UserDataKey(u) : u \in KeyUsers}
    \cup {UserReposKey(u, n) : u \in KeyUsers, n \in KeyLimits}
    \cup {RepoIssuesKey(QualifiedRepo(o \o <<"/">> \o r), n) :
            o \in KeyUsers, r \in KeyRepos, n \in KeyLimits}
    \cup {PinnedReposKey(u) : u \in KeyUsers}
    \cup {ProfileReadmeKey(u) : u \in KeyUsers}
    \cup {UserEventsKey(u, n) : u \in KeyUsers, n \in KeyLimits}
    \cup {UserGistsKey(u) : u \in KeyUsers}
    \cup {RepoLanguagesKey(u, r) : u \in KeyUsers, r \in KeyRepos}
    \cup {TechStackKey(u, r) : u \in KeyUsers, r \in KeyRepos}

NoPath == <<>>

KeyIdle == keyA = <<>> /\ keyB = <<>> /\ pathA = NoPath /\ pathB = NoPath

KeyInit ==
    /\ keyA \in LogicalKeys
    /\ keyB \in LogicalKeys
    /\ pathA = NoPath
    /\ pathB = NoPath

\* two fetch methods look their keys up
LookUpPaths ==
    /\ pathA = NoPath
    /\ pathA' = GetCachePath(keyA)
    /\ pathB' = GetCachePath(keyB)
    /\ UNCHANGED <<keyA, keyB>>
    /\ UNCHANGED notKeyVars

-----------------------------------------------------------------------------
(* Recommendation engine: src/main.py, lines 20-22 and 108-201 *)

MaxIssues == 3
MaxRankIssues == 7
MinScore == 30
TopN == 5

\* Percentages and scores are in tenths: 299 is 29.9 %, 30 is 3.0 / 10.
\* The percentages ending in 5 whose score CPython's round(x, 1) rounds up
\* (round((p / 100) * 10, 1) on IEEE doubles, p = 0.5, 3.5, 5.5, ...)
TiesRoundedUp ==
    {5, 35, 55, 65, 75, 85, 105, 115, 135, 155, 165, 175, 185, 195, 245, 265,
     275, 335, 375, 385, 395, 405, 445, 465, 475, 495, 515, 535, 545, 555,
     575, 615, 645, 655, 665, 675, 685, 745, 765, 775, 785, 795, 805, 855,
     865, 875, 905, 915, 935, 965, 975}

ScoreTruncated(p) == p \div 10

\* round((match_percentage / 100) * 10, 1)
calculate_score_out_of_10(p) ==
    LET q == p \div 10
        r == p % 10
    IN IF r > 5 \/ (r = 5 /\ p \in TiesRoundedUp) THEN q + 1 ELSE q

JNum(n) == [t |-> "num", v |-> n]

\* the JSON object of a comparison result
SkillMatch(p, m) ==
    [t |-> "dict", v |-> <<"match_percentage", "matching_skills">>,
     match_percentage |-> p, matching_skills |-> m]
NoMatch ==
    [t |-> "dict", v |-> <<>>, match_percentage |-> JNull,
     matching_skills |-> JNull]

\* what an issue of the file and the two services can be like: the issue
\* record, the result of analyze_issue, the result of compare_skills
Requirements == JDict(<<"required_languages">>)
Outcome(rec, req, sm) ==
    [record |-> rec, requirements |-> req, skill_match |-> sm]
Scored(p, m) == Outcome("ok", Requirements, SkillMatch(JNum(p), JList(m)))

IssueOutcomes ==
    { Outcome("labels_null", Requirements, NoMatch),
      Outcome("label_not_dict", Requirements,
              SkillMatch(JNum(800), JList(<<"Python">>))),
      Outcome("ok", JNull, NoMatch),
      Outcome("ok", JDict(<<>>), NoMatch),
      Outcome("ok", Requirements, NoMatch),
      Outcome("ok", Requirements, SkillMatch(JNull, JList(<<"Python">>))),
      Outcome("ok", Requirements, SkillMatch(JNum(800), JNull)),
      Scored(294, <<"Python">>),
      Scored(299, <<"Python">>),
      Scored(300, <<"Python">>),
      Scored(800, <<"Python">>),
      Scored(800, <<"Python", "Go">>) }

RankOutcomes ==
    { Scored(100, <<"Rust">>), Scored(300, <<"Python">>),
      Scored(800, <<"Python">>) }

IssueRepos == {Chars("a/x"), Chars("b/x")}

\* the characters of a repository name in code-point order
CodePoints ==
    Chars(" #+-./0123456789ABCDEFGHIJKLMNOPQRSTUVWXYZ_abcdefghijklmnopqrstuvwxyz")
Ord(c) == CHOOSE i \in 1..Len(CodePoints) : CodePoints[i] = c

RECURSIVE StrLess(_, _)
\* s < t for Python strings
StrLess(s, t) ==
    IF t = <<>> THEN FALSE
    ELSE IF s = <<>> THEN TRUE
    ELSE IF Head(s) = Head(t) THEN StrLess(Tail(s), Tail(t))
    ELSE Ord(Head(s)) < Ord(Head(t))

\* len(x["matching_skills"]) raises TypeError on None and on a number
HasLen(j) == j.t \in {"list", "dict", "str"}

KeyLessNoRepo(a, b) ==
    \/ a.match_percentage > b.match_percentage
    \/ /\ a.match_percentage = b.match_percentage
       /\ Len(a.matching_skills.v) > Len(b.matching_skills.v)
\* key(a) < key(b) for the sort key of lines 172-176:
\* (-match_percentage, -len(matching_skills), repo_name)
KeyLess(a, b) ==
    \/ a.match_percentage > b.match_percentage
    \/ /\ a.match_percentage = b.match_percentage
       /\ \/ Len(a.matching_skills.v) > Len(b.matching_skills.v)
          \/ /\ Len(a.matching_skills.v) = Len(b.matching_skills.v)
             /\ StrLess(a.repo_name, b.repo_name)

RECURSIVE InsertSorted(_, _)
\* x put behind every element whose key is not greater: a stable insertion
InsertSorted(sorted, x) ==
    IF sorted = <<>> THEN <<x>>
    ELSE IF KeyLess(x, Head(sorted)) THEN <<x>> \o sorted
    ELSE <<Head(sorted)>> \o InsertSorted(Tail(sorted), x)

RECURSIVE SortMatches(_)
\* issue_matches.sort(key=...): list.sort is stable
SortMatches(ms) ==
    IF ms = <<>> THEN <<>>
    ELSE InsertSorted(SortMatches(SubSeq(ms, 1, Len(ms) - 1)), ms[Len(ms)])

Min(a, b) == IF a < b THEN a ELSE b

TruncateThenSort(ms) == SortMatches(SubSeq(ms, 1, Min(TopN, Len(ms))))

\* lines 172-179: sort the whole list, then issue_matches[:5]
TopMatches(ms) == SubSeq(SortMatches(ms), 1, Min(TopN, Len(ms)))

NoResult == [t |-> "running", recommended_issues |-> <<>>]
NoneResult == [t |-> "none", recommended_issues |-> <<>>]
NoIssue == [seen |-> FALSE]

\* d.get(k, default) of a JSON object d
Get(d, k, default) == IF k \in DOMAIN d THEN d[k] ELSE default

\* skill_match.get("match_percentage", 0)
MatchPercentage(sm) == Get(sm, "match_percentage", JNum(0))

\* lines 115-165: what the loop body does with one issue: "error" when an
\* exception reaches the handler of line 163, "skipped" on a continue,
\* "emitted" when the issue is appended
Disposition(o) ==
    IF o.record = "labels_null" THEN "error"           \* no .get, line 120
    ELSE IF ~Truthy(o.requirements) THEN "skipped"
    ELSE IF ~Truthy(o.skill_match) THEN "skipped"
    ELSE IF o.skill_match.t # "dict" THEN "error"      \* no .get
    ELSE IF MatchPercentage(o.skill_match).t # "num" THEN "error"
    ELSE IF calculate_score_out_of_10(MatchPercentage(o.skill_match).v) < MinScore
         THEN "skipped"
    ELSE IF o.record = "label_not_dict" THEN "error"   \* no .get, line 149
    ELSE IF o.requirements.t # "dict" THEN "error"     \* no .get, line 158
    ELSE "emitted"

\* the dict appended at lines 145-162 (the fields the ranking reads, and the
\* issue's place in the file for its title)
Recommendation(repo, title, o) ==
    [repo_name |-> repo,
     issue_title |-> title,
     match_percentage |-> MatchPercentage(o.skill_match).v,
     match_score |-> calculate_score_out_of_10(MatchPercentage(o.skill_match).v),
     matching_skills |-> Get(o.skill_match, "matching_skills", JList(<<>>))]

\* for repo_name, issues in all_issues.items(): the next repository
NextRepo(r) ==
    /\ epc = "loop"
    /\ ~Has(repos_seen, r)
    /\ repos_seen' = Append(repos_seen, r)
    /\ UNCHANGED <<epc, processed, issue_matches, candidates, result, eout>>
    /\ UNCHANGED notEngVars

\* for issue in issues: the body of the loop for the next issue of the
\* current repository
ProcessIssue(o, bound) ==
    /\ epc = "loop"
    /\ repos_seen # <<>>
    /\ processed < bound
    /\ processed' = processed + 1
    /\ LET d == Disposition(o)
           repo == repos_seen[Len(repos_seen)]
       IN /\ issue_matches' =
                IF d = "emitted"
                THEN Append(issue_matches, Recommendation(repo, processed + 1, o))
                ELSE issue_matches
          /\ eout' = [seen |-> TRUE, outcome |-> o, disposition |-> d,
                      title |-> processed + 1, repo |-> repo]
    /\ UNCHANGED <<epc, repos_seen, candidates, result>>
    /\ UNCHANGED notEngVars

\* lines 167-201: after the loop
RankAndReturn ==
    /\ epc = "loop"
    /\ epc' = "done"
    /\ candidates' = issue_matches
    /\ IF issue_matches = <<>>
       THEN result' = NoneResult /\ UNCHANGED issue_matches
       ELSE IF \E i \in 1..Len(issue_matches) :
                    ~HasLen(issue_matches[i].matching_skills)
       THEN \* the key function raises: the handler of line 198 returns None
            result' = NoneResult /\ UNCHANGED issue_matches
       ELSE /\ issue_matches' = SortMatches(issue_matches)
            /\ result' = [t |-> "ok",
                          recommended_issues |-> TopMatches(issue_matches)]
    /\ UNCHANGED <<repos_seen, processed, eout>>
    /\ UNCHANGED notEngVars

EngIdle ==
    /\ epc = "idle"
    /\ repos_seen = <<>>
    /\ processed = 0
    /\ issue_matches = <<>>
    /\ candidates = <<>>
    /\ result = NoResult
    /\ eout = NoIssue

\* the state at line 109, the issues file loaded
EngInit ==
    /\ epc = "loop"
    /\ repos_seen = <<>>
    /\ processed = 0
    /\ issue_matches = <<>>
    /\ candidates = <<>>
    /\ result = NoResult
    /\ eout = NoIssue

-----------------------------------------------------------------------------
(* The LLM call with retries: src/gemini_analyzer.py, lines 14-57 *)

max_retries == 3
BackoffCap == 30
DefaultRetryAfter == 30

\* the Retry-After header of a 429 answer: absent, a number of seconds, or
\* an HTTP date
RetryAfterHeaders ==
    {[k |-> "absent"], [k |-> "seconds", v |-> 1], [k |-> "seconds", v |-> 7],
     [k |-> "date"]}

\* what one POST may come to: a 200 answer with a JSON body, a transport
\* error (timeout, connection), another error status, or a 429
PostAnswers ==
    {[k |-> "ok", body |-> b] : b \in {"r1", "r2"}}
    \cup {[k |-> "transport"], [k |-> "status", code |-> 500]}
    \cup {[k |-> "status", code |-> 429, retry_after |-> h] :
            h \in RetryAfterHeaders}

NoAnswer == [k |-> "none"]
NoPost == [ev |-> "none"]
ApiRunning == [t |-> "running"]
ApiNone == [t |-> "none"]

\* lines 33-36: the sleep at the top of iteration a
Backoff(a) ==
    IF a > 0 THEN (IF 2 ^ a < BackoffCap THEN 2 ^ a ELSE BackoffCap) ELSE 0

\* int(response.headers.get('Retry-After', 30)): ValueError on an HTTP date
RetryAfter(h) ==
    CASE h.k = "absent" -> [ok |-> TRUE, v |-> DefaultRetryAfter]
      [] h.k = "seconds" -> [ok |-> TRUE, v |-> h.v]
      [] OTHER -> [ok |-> FALSE, v |-> 0]

\* _call_gemini_api(prompt) is entered
CallGeminiApi ==
    /\ cpc = "idle"
    /\ cpc' = "top"
    /\ attempt' = 0
    /\ UNCHANGED <<posts, slept, prev, lev, api>>
    /\ UNCHANGED notLlmVars

\* lines 30-36: the next iteration of the loop begins, if there is one
BeginAttempt ==
    /\ cpc = "top"
    /\ IF attempt < max_retries
       THEN /\ cpc' = "post"
            /\ slept' = slept + Backoff(attempt)
            /\ lev' = [ev |-> "backoff", attempt |-> attempt,
                       secs |-> Backoff(attempt)]
            /\ api' = api
       ELSE \* line 57
            /\ cpc' = "done"
            /\ api' = ApiNone
            /\ UNCHANGED <<slept, lev>>
    /\ UNCHANGED <<attempt, posts, prev>>
    /\ UNCHANGED notLlmVars

\* lines 38-55: the POST of this iteration and what follows from its answer
Post ==
    /\ cpc = "post"
    /\ \E a \in PostAnswers :
          /\ posts' = posts + 1
          /\ prev' = a
          /\ lev' = [ev |-> "post", attempt |-> attempt, waited |-> slept,
                     backoff |-> Backoff(attempt), after |-> prev]
          /\ CASE a.k = "ok" ->
                    /\ cpc' = "done"
                    /\ api' = [t |-> "response", body |-> a.body,
                               post |-> posts + 1]
                    /\ slept' = 0
                    /\ UNCHANGED attempt
               [] a.k = "status" /\ a.code = 429 ->
                    LET w == RetryAfter(a.retry_after) IN
                    IF w.ok
                    THEN /\ slept' = w.v
                         /\ attempt' = attempt + 1
                         /\ cpc' = "top"
                         /\ api' = api
                    ELSE \* ValueError is no RequestException: it leaves
                         /\ cpc' = "done"
                         /\ api' = [t |-> "raised"]
                         /\ slept' = 0
                         /\ UNCHANGED attempt
               [] OTHER ->
                    /\ slept' = 0
                    /\ IF attempt < max_retries - 1
                       THEN attempt' = attempt + 1 /\ cpc' = "top" /\ api' = api
                       ELSE /\ cpc' = "done"
                            /\ api' = ApiNone
                            /\ UNCHANGED attempt
    /\ UNCHANGED notLlmVars

LlmIdle ==
    /\ cpc = "idle"
    /\ attempt = 0
    /\ posts = 0
    /\ slept = 0
    /\ prev = NoAnswer
    /\ lev = NoPost
    /\ api = ApiRunning

-----------------------------------------------------------------------------
(* Parsing the LLM answers: src/gemini_analyzer.py, lines 139-170, 192-234 *)

\* A text is a sequence of lexemes: the two markers of a markdown code block
\* (three backquotes with and without "json"), white space, prose, and the
\* text of a JSON value.
Lexeme(lx, val) == [lx |-> lx, val |-> val]
FenceJson == Lexeme("fence_json", JNull)
Fence == Lexeme("fence", JNull)
Space == Lexeme("space", JNull)
Prose == Lexeme("prose", JNull)
JsonText(v) == Lexeme("json", v)

RECURSIVE Strip(_)
\* str.strip()
Strip(text) ==
    IF text = <<>> THEN <<>>
    ELSE IF Head(text) = Space THEN Strip(Tail(text))
    ELSE IF text[Len(text)] = Space THEN Strip(SubSeq(text, 1, Len(text) - 1))
    ELSE text

\* line 160: both code block markers replaced by ''
Unfenced(text) == SelectSeq(text, LAMBDA l : l \notin {FenceJson, Fence})

JsonLoadsLenient(text) ==
    LET values == SelectSeq(text, LAMBDA l : l.lx = "json") IN
    IF values # <<>> THEN [ok |-> TRUE, v |-> values[1].val]
    ELSE [ok |-> TRUE, v |-> JStr(<<"prose">>)]

\* json.loads(text): the value of a text that is one JSON value, white space
\* around it allowed; JSONDecodeError on anything else
JsonLoads(text) ==
    LET t == Strip(text) IN
    IF Len(t) = 1 /\ t[1].lx = "json" THEN [ok |-> TRUE, v |-> t[1].val]
    ELSE [ok |-> FALSE, v |-> JNull]

\* a response body: 'candidates' (or no such key), each candidate with its
\* 'content' (or none) and the parts of it, each part with 'text' (or none)
TextPart(text) == [has_text |-> TRUE, text |-> text]
OtherPart == [has_text |-> FALSE, text |-> <<>>]
Candidate(parts) == [has_content |-> TRUE, parts |-> parts]
Response(cands) == [has_candidates |-> TRUE, candidates |-> cands]
NoCandidates == [has_candidates |-> FALSE, candidates |-> <<>>]

\* the first part with a 'text', over all candidates in order
TextParts(response) ==
    IF ~response.has_candidates THEN <<>>
    ELSE LET RECURSIVE Flat(_)
             Flat(cs) ==
                IF cs = <<>> THEN <<>>
                ELSE (IF Head(cs).has_content
                      THEN SelectSeq(Head(cs).parts, LAMBDA p : p.has_text)
                      ELSE <<>>) \o Flat(Tail(cs))
         IN Flat(response.candidates)

\* _parse_response and _parse_comparison_response (the same code twice)
ParseResponse(response) ==
    LET parts == TextParts(response) IN
    IF parts = <<>> THEN JDict(<<>>)
    ELSE LET parsed == JsonLoads(Strip(Unfenced(Strip(parts[1].text)))) IN
         IF parsed.ok THEN parsed.v ELSE JDict(<<>>)

\* what _call_gemini_api handed back: a response body, or None
Reply(response) == [t |-> "response", body |-> response]

\* analyze_issue, lines 139-149
analyze_issue(reply) ==
    IF reply.t # "response" THEN JNull ELSE ParseResponse(reply.body)

\* the dict compare_skills returns when there is no response, lines 195-201
NoComparison ==
    [t |-> "dict", v |-> <<"match_percentage", "matching_skills">>,
     match_percentage |-> JNum(0), matching_skills |-> JList(<<>>)]

\* compare_skills, lines 192-214
compare_skills(reply) ==
    IF reply.t # "response" THEN NoComparison ELSE ParseResponse(reply.body)

OneText(text) == Reply(Response(<<Candidate(<<TextPart(text)>>)>>))
Fenced(text) == <<FenceJson, Space>> \o text \o <<Space, Fence>>

\* the answers to the extraction prompt
ExtractionReplies ==
    { ApiNone,
      Reply(NoCandidates),
      Reply(Response(<<Candidate(<<OtherPart, TextPart(<<JsonText(Requirements)>>)>>)>>)),
      OneText(<<Prose>>),
      OneText(Fenced(<<Prose>>)),
      OneText(<<Prose, Space, JsonText(Requirements)>>),
      OneText(Fenced(<<JsonText(Requirements)>>)),
      OneText(<<JsonText(JDict(<<>>))>>),
      OneText(<<JsonText(JList(<<"Python">>))>>),
      OneText(<<JsonText(JNull)>>) }

\* the answers to the comparison prompt
ComparisonReplies ==
    { ApiNone,
      OneText(<<Prose>>),
      OneText(Fenced(<<Prose>>)),
      OneText(Fenced(<<JsonText(SkillMatch(JNum(800), JList(<<"Python">>)))>>)),
      OneText(<<JsonText(SkillMatch(JNum(100), JList(<<"Python">>)))>>),
      OneText(<<JsonText(SkillMatch(JNum(299), JList(<<"Python">>)))>>),
      OneText(<<JsonText(SkillMatch(JNum(1500), JList(<<"Python">>)))>>),
      OneText(<<JsonText(JList(<<"Python">>))>>),
      OneText(<<JsonText(JNum(80))>>) }

MaxAnalysed == 2

\* the label shapes of an issue record: objects, 'labels': null, and labels
\* that are strings
IssueRecords == {"ok", "labels_null", "label_not_dict"}

\* an issue and the answers the two prompts get for it
Analysed(rec, extraction, comparison) ==
    [record |-> rec,
     requirements |-> analyze_issue(extraction),
     skill_match |-> compare_skills(comparison),
     extraction |-> extraction,
     comparison |-> comparison]

\* the body of the loop for the next issue, the analyzer answering from the
\* two replies
AnalyseIssue(rec, extraction, comparison) ==
    ProcessIssue(Analysed(rec, extraction, comparison), MaxAnalysed)

-----------------------------------------------------------------------------
(* Processes sharing one cache file: src/github_api.py, lines 33-52 *)

Writers == {1, 2}

\* the text json.dump writes for the record of writer w, byte by byte (the
\* records differ in length)
Byte(w, i) == [w |-> w, i |-> i]
RecordLen(w) == IF w = 1 THEN 3 ELSE 2
RecordText(w) == [i \in 1..RecordLen(w) |-> Byte(w, i)]
Nul == Byte(0, 0)

NoFile == [exists |-> FALSE, bytes |-> <<>>]
NotRead == [k |-> "none", bytes |-> <<>>]

\* write(2) of `chunk` at offset `pos`: the bytes there are overwritten, the
\* file grows as needed, a gap below pos reads as zeros
WriteAt(bytes, pos, chunk) ==
    LET end == pos + Len(chunk)
        n == IF end > Len(bytes) THEN end ELSE Len(bytes)
    IN [i \in 1..n |->
          IF i > pos /\ i <= end THEN chunk[i - pos]
          ELSE IF i <= Len(bytes) THEN bytes[i]
          ELSE Nul]

\* line 51: open(cache_path, 'w') creates the file or truncates it
OpenForWrite(w) ==
    /\ wr[w].pc = "start"
    /\ file' = [exists |-> TRUE, bytes |-> <<>>]
    /\ wr' = [wr EXCEPT ![w] = [pc |-> "open", pos |-> 0]]
    /\ UNCHANGED <<obs, closed>>
    /\ UNCHANGED notRaceVars

\* line 52: json.dump(cache_data, f): the buffered text reaches the file in
\* one write or in several
WriteChunk(w) ==
    /\ wr[w].pc = "open"
    /\ wr[w].pos < RecordLen(w)
    /\ \E n \in 1..(RecordLen(w) - wr[w].pos) :
          /\ file' = [file EXCEPT !.bytes =
                        WriteAt(@, wr[w].pos,
                                SubSeq(RecordText(w), wr[w].pos + 1, wr[w].pos + n))]
          /\ wr' = [wr EXCEPT ![w].pos = @ + n]
    /\ UNCHANGED <<obs, closed>>
    /\ UNCHANGED notRaceVars

\* the end of the with block: everything is written, the file is closed
CloseFile(w) ==
    /\ wr[w].pc = "open"
    /\ wr[w].pos = RecordLen(w)
    /\ wr' = [wr EXCEPT ![w].pc = "closed"]
    /\ closed' = Append(closed, w)
    /\ UNCHANGED <<file, obs>>
    /\ UNCHANGED notRaceVars

\* lines 36-38: a process looks the key up: os.path.exists, then json.load
\* of what the file holds now
ReadCache ==
    /\ obs' = IF file.exists THEN [k |-> "file", bytes |-> file.bytes]
              ELSE [k |-> "absent", bytes |-> <<>>]
    /\ obs' # obs
    /\ UNCHANGED <<file, wr, closed>>
    /\ UNCHANGED notRaceVars

RaceIdle ==
    /\ file = NoFile
    /\ wr = [w \in Writers |-> [pc |-> "idle", pos |-> 0]]
    /\ obs = NotRead
    /\ closed = <<>>

\* two processes are about to save the same key
RaceInit ==
    /\ file = NoFile
    /\ wr = [w \in Writers |-> [pc |-> "start", pos |-> 0]]
    /\ obs = NotRead
    /\ closed = <<>>

-----------------------------------------------------------------------------
(* Tech-profile builder: src/github_fetcher.py, lines 67-146 *)

MaxListed == 2
MaxRepos == 2

\* str.capitalize(): the first character upper-cased, the rest lower-cased
UpperChar(c) ==
    IF \E i \in 1..26 : LowerChars[i] = c
    THEN UpperChars[CHOOSE i \in 1..26 : LowerChars[i] = c]
    ELSE c
Capitalize(s) ==
    IF s = <<>> THEN <<>> ELSE <<UpperChar(Head(s))>> \o Lower(Tail(s))

\* any(keyword in text for keyword in keywords)
AnyIn(keywords, text) ==
    \E i \in 1..Len(keywords) : Contains(text, keywords[i])

\* the keyword lists of lines 87, 89 and 91
TopicLanguages ==
    <<Chars("javascript"), Chars("python"), Chars("java"),
      Chars("typescript"), Chars("ruby"), Chars("php")>>
TopicFrameworks ==
    <<Chars("react"), Chars("vue"), Chars("angular"), Chars("django"),
      Chars("flask"), Chars("spring"), Chars("express")>>
TopicTools ==
    <<Chars("docker"), Chars("kubernetes"), Chars("aws"), Chars("git"),
      Chars("mongodb"), Chars("postgresql")>>

\* the lists of lines 109 and 111
StackFrameworks ==
    <<Chars("React"), Chars("Vue.js"), Chars("Angular"), Chars("Django"),
      Chars("Flask"), Chars("Spring"), Chars("Express")>>
StackTools ==
    <<Chars("Docker"), Chars("Kubernetes"), Chars("Node.js"),
      Chars("MongoDB"), Chars("PostgreSQL")>>

\* lines 119-126, in the order of the dict
domain_keywords == <<
    [domain |-> Chars("web"), keywords |->
        <<Chars("web"), Chars("frontend"), Chars("backend"), Chars("fullstack")>>],
    [domain |-> Chars("mobile"), keywords |->
        <<Chars("mobile"), Chars("android"), Chars("ios"),
          Chars("react-native"), Chars("flutter")>>],
    [domain |-> Chars("data science"), keywords |->
        <<Chars("data science"), Chars("machine learning"),
          Chars("deep learning"), Chars("ai")>>],
    [domain |-> Chars("devops"), keywords |->
        <<Chars("devops"), Chars("ci/cd"), Chars("docker"), Chars("kubernetes")>>],
    [domain |-> Chars("blockchain"), keywords |->
        <<Chars("blockchain"), Chars("web3"), Chars("smart contract")>>],
    [domain |-> Chars("security"), keywords |->
        <<Chars("security"), Chars("cryptography"), Chars("authentication")>>] >>

\* lines 135-139, in the order of the dict
tech_keywords == <<
    [category |-> "languages", keywords |->
        TopicLanguages \o <<Chars("c++"), Chars("c#")>>],
    [category |-> "frameworks", keywords |-> TopicFrameworks],
    [category |-> "tools", keywords |-> TopicTools] >>

Categories == <<"languages", "frameworks", "tools", "domains">>

\* lines 72-77: four empty sets.  A set is kept as the sequence of its
\* elements, without repetition
EmptyTechProfile ==
    [languages |-> <<>>, frameworks |-> <<>>, tools |-> <<>>, domains |-> <<>>]

ListAppend(s, x) == Append(s, x)
\* set.add(x)
SetAdd(s, x) == IF Has(s, x) THEN s ELSE Append(s, x)

RECURSIVE SetUpdate(_, _)
\* set.update(xs)
SetUpdate(s, xs) ==
    IF xs = <<>> THEN s ELSE SetUpdate(SetAdd(s, Head(xs)), Tail(xs))

Replace(tp, category, x) == [tp EXCEPT ![category] = <<x>>]
\* tech_profile[category].add(x)
AddTo(tp, category, x) == [tp EXCEPT ![category] = SetAdd(@, x)]

AddTopicToolsFirst(tp, topic) ==
    LET topic_lower == Lower(topic)
    IN IF AnyIn(TopicTools, topic_lower)
       THEN AddTo(tp, "tools", topic)
       ELSE IF AnyIn(TopicLanguages, topic_lower)
       THEN AddTo(tp, "languages", Capitalize(topic))
       ELSE IF AnyIn(TopicFrameworks, topic_lower)
       THEN AddTo(tp, "frameworks", topic)
       ELSE AddTo(tp, "domains", topic)
\* lines 86-94: one topic of a pinned repository
AddTopic(tp, topic) ==
    LET topic_lower == Lower(topic)
    IN IF AnyIn(TopicLanguages, topic_lower)
       THEN AddTo(tp, "languages", Capitalize(topic))
       ELSE IF AnyIn(TopicFrameworks, topic_lower)
       THEN AddTo(tp, "frameworks", topic)
       ELSE IF AnyIn(TopicTools, topic_lower)
       THEN AddTo(tp, "tools", topic)
       ELSE AddTo(tp, "domains", topic)

RECURSIVE AddTopics(_, _)
AddTopics(tp, topics) ==
    IF topics = <<>> THEN tp
    ELSE AddTopics(AddTopic(tp, Head(topics)), Tail(topics))

\* lines 81-94: one pinned repository
AddPinned(tp, repo) ==
    AddTopics([tp EXCEPT !.languages = SetUpdate(@, repo.languages)],
              repo.topics)

RECURSIVE AddAllPinned(_, _)
\* lines 80-94
AddAllPinned(tp, pinned) ==
    IF pinned = <<>> THEN tp
    ELSE AddAllPinned(AddPinned(tp, Head(pinned)), Tail(pinned))

\* lines 109-114: one key of detected_tech_stack
AddTech(tp, tech) ==
    IF Has(StackFrameworks, tech) THEN AddTo(tp, "frameworks", tech)
    ELSE IF Has(StackTools, tech) THEN AddTo(tp, "tools", tech)
    ELSE AddTo(tp, "languages", tech)

RECURSIVE AddStack(_, _)
AddStack(tp, stack) ==
    IF stack = <<>> THEN tp ELSE AddStack(AddTech(tp, Head(stack)), Tail(stack))

RECURSIVE AddDomains(_, _, _)
\* lines 127-129, from the i-th entry of domain_keywords on
AddDomains(tp, desc_lower, i) ==
    IF i > Len(domain_keywords) THEN tp
    ELSE AddDomains(IF AnyIn(domain_keywords[i].keywords, desc_lower)
                    THEN AddTo(tp, "domains", domain_keywords[i].domain)
                    ELSE tp,
                    desc_lower, i + 1)

\* lines 99-129: one repository; None and the empty string are both <<>>
AddRepository(tp, repo) ==
    LET stats == [tp EXCEPT !.languages = SetUpdate(@, repo.language_stats)]
        primary == IF repo.language # <<>>
                   THEN AddTo(stats, "languages", repo.language)
                   ELSE stats
        stack == AddStack(primary, repo.detected_tech_stack)
    IN IF repo.description # <<>>
       THEN AddDomains(stack, Lower(repo.description), 1)
       ELSE stack

RECURSIVE AddRepositories(_, _)
\* lines 97-129
AddRepositories(tp, repos) ==
    IF repos = <<>> THEN tp
    ELSE AddRepositories(AddRepository(tp, Head(repos)), Tail(repos))

RECURSIVE AddKeywords(_, _, _, _)
\* lines 141-143 for one category
AddKeywords(tp, category, keywords, readme_lower) ==
    IF keywords = <<>> THEN tp
    ELSE AddKeywords(IF Contains(readme_lower, Head(keywords))
                     THEN AddTo(tp, category, Capitalize(Head(keywords)))
                     ELSE tp,
                     category, Tail(keywords), readme_lower)

RECURSIVE AddReadme(_, _, _)
\* lines 140-143, from the i-th entry of tech_keywords on
AddReadme(tp, readme_lower, i) ==
    IF i > Len(tech_keywords) THEN tp
    ELSE AddReadme(AddKeywords(tp, tech_keywords[i].category,
                               tech_keywords[i].keywords, readme_lower),
                   readme_lower, i + 1)

RECURSIVE InsertString(_, _)
InsertString(xs, x) ==
    IF xs = <<>> THEN <<x>>
    ELSE IF StrLess(x, Head(xs)) THEN <<x>> \o xs
    ELSE <<Head(xs)>> \o InsertString(Tail(xs), x)

RECURSIVE SortStrings(_)
\* sorted() of a list of strings
SortStrings(xs) ==
    IF xs = <<>> THEN <<>>
    ELSE InsertString(SortStrings(SubSeq(xs, 1, Len(xs) - 1)), xs[Len(xs)])

ListOnly(listed) == listed
\* sorted(list(v)), listed being list(v)
SortedList(listed) == SortStrings(listed)

\* the orders a list can be in
Perms(xs) ==
    { [i \in 1..Len(xs) |-> xs[p[i]]] :
        p \in { q \in [1..Len(xs) -> 1..Len(xs)] :
                  \A i, j \in 1..Len(xs) : q[i] = q[j] => i = j } }

\* list(v): a set of strings iterates in an order that depends on the
\* process's hash seed
IterationOrders(tp) ==
    { [languages |-> l, frameworks |-> f, tools |-> t, domains |-> d] :
        l \in Perms(tp.languages), f \in Perms(tp.frameworks),
        t \in Perms(tp.tools), d \in Perms(tp.domains) }

\* line 146, for one iteration order of each set
Returned146(listed) ==
    [k \in {c \in {Categories[i] : i \in 1..4} : listed[c] # <<>>} |->
        SortedList(listed[k])]

\* what get_pinned_repositories and get_user_repositories can give
Pinned(languages, topics) == [languages |-> languages, topics |-> topics]
Repository(stats, language, stack, description) ==
    [language_stats |-> stats, language |-> language,
     detected_tech_stack |-> stack, description |-> description]

PinnedPool ==
    << Pinned(<<Chars("Python"), Chars("Go")>>,
              <<Chars("python"), Chars("reactjs"), Chars("cli")>>),
       Pinned(<<Chars("Go")>>, <<Chars("docker"), Chars("docker-python")>>),
       Pinned(<<>>, <<Chars("python")>>) >>

RepositoryPool ==
    << Repository(<<Chars("Python"), Chars("Go")>>, Chars("Python"),
                  <<Chars("React"), Chars("Docker")>>, Chars("Web backend")),
       Repository(<<>>, Chars("Go"), <<Chars("Flutter")>>, <<>>),
       Repository(<<Chars("Go")>>, <<>>, <<>>, <<>>) >>

Readmes == {<<>>, Chars("I use Python and Flask")}

Input(pinned, readme, repos) ==
    [pinned_repositories |-> pinned, profile_readme |-> readme,
     repositories |-> repos]
NoInput == Input(<<>>, <<>>, <<>>)

Inputs ==
    { Input(SubSeq(PinnedPool, 1, n), readme, SubSeq(RepositoryPool, 1, m)) :
        n \in 0..Min(MaxListed, Len(PinnedPool)),
        m \in 0..Min(MaxListed, Len(RepositoryPool)),
        readme \in Readmes }

\* the same repositories listed in another order, the topics of each pinned
\* repository and the detected technologies of each repository too
RelistedPinned(repo) ==
    { [repo EXCEPT !.topics = t] : t \in Perms(repo.topics) }
RelistedRepository(repo) ==
    { [repo EXCEPT !.detected_tech_stack = s] :
        s \in Perms(repo.detected_tech_stack) }
Relisted(in) ==
    { Input(p, in.profile_readme, r) :
        p \in UNION { { q \in [1..Len(o) -> UNION {RelistedPinned(o[i]) : i \in 1..Len(o)}] :
                          \A i \in 1..Len(o) : q[i] \in RelistedPinned(o[i]) } :
                      o \in Perms(in.pinned_repositories) },
        r \in UNION { { q \in [1..Len(o) -> UNION {RelistedRepository(o[i]) : i \in 1..Len(o)}] :
                          \A i \in 1..Len(o) : q[i] \in RelistedRepository(o[i]) } :
                      o \in Perms(in.repositories) } }

\* lines 80-94
ProcessPinned ==
    /\ ppc = "pinned"
    /\ tech_profile' = AddAllPinned(tech_profile, tp_in.pinned_repositories)
    /\ ppc' = "repositories"
    /\ UNCHANGED <<given, tp_in, outputs>>
    /\ UNCHANGED notProfVars

\* lines 97-129
ProcessRepositories ==
    /\ ppc = "repositories"
    /\ tech_profile' = AddRepositories(tech_profile, tp_in.repositories)
    /\ ppc' = "readme"
    /\ UNCHANGED <<given, tp_in, outputs>>
    /\ UNCHANGED notProfVars

\* lines 132-143
ProcessReadme ==
    /\ ppc = "readme"
    /\ tech_profile' =
          IF tp_in.profile_readme # <<>>
          THEN AddReadme(tech_profile, Lower(tp_in.profile_readme), 1)
          ELSE tech_profile
    /\ ppc' = "return"
    /\ UNCHANGED <<given, tp_in, outputs>>
    /\ UNCHANGED notProfVars

\* line 146
ReturnProfile ==
    /\ ppc = "return"
    /\ \E listed \in IterationOrders(tech_profile) :
          outputs' = Append(outputs, Returned146(listed))
    /\ ppc' = "done"
    /\ UNCHANGED <<given, tp_in, tech_profile>>
    /\ UNCHANGED notProfVars

\* get_user_tech_profile called once more on the same data
RunAgain ==
    /\ ppc = "done"
    /\ Len(outputs) = 1
    /\ tp_in' \in Relisted(given)
    /\ tech_profile' = EmptyTechProfile
    /\ ppc' = "pinned"
    /\ UNCHANGED <<given, outputs>>
    /\ UNCHANGED notProfVars

ProfIdle ==
    /\ given = NoInput
    /\ tp_in = NoInput
    /\ ppc = "idle"
    /\ tech_profile = EmptyTechProfile
    /\ outputs = <<>>

\* the state at line 72, the profile and the repositories fetched
ProfInit ==
    /\ given \in Inputs
    /\ tp_in = given
    /\ ppc = "pinned"
    /\ tech_profile = EmptyTechProfile
    /\ outputs = <<>>

-----------------------------------------------------------------------------
(* The top-level analysis: src/main.py, lines 48-106 and 167-201 *)

CategorySet == {Categories[i] : i \in 1..Len(Categories)}
NoSkills == [c \in CategorySet |-> <<>>]

NotReturned ==
    [t |-> "pending", skills |-> NoSkills, recommended_issues |-> <<>>]
\* return None
ReturnNone == [t |-> "none", skills |-> NoSkills, recommended_issues |-> <<>>]

Uncaught(e) == [t |-> "raised", skills |-> NoSkills, recommended_issues |-> <<>>]
\* lines 198-201: except Exception, return None
Caught(e) == ReturnNone

\* the function is left: with a return, or by an exception of the try body
Leave(value, why) ==
    /\ returned' = value
    /\ failure' = why
    /\ epc' = "returned"

\* what a fetch method of GitHubFetcher gives: data, nothing, or an
\* exception it does not handle (an unreadable cache file, for one)
FetchAnswers == {"data", "empty", "raises"}

\* line 54: GitHubFetcher() probes the rate limit without a handler
Construct(answer) ==
    /\ epc = "construct"
    /\ IF answer = "raises"
       THEN Leave(Caught("ConnectionError"), "constructor")
       ELSE epc' = "profile" /\ UNCHANGED <<returned, failure>>
    /\ UNCHANGED <<repos_seen, processed, issue_matches, candidates, result, eout>>
    /\ UNCHANGED user_skills_data
    /\ UNCHANGED <<srcVars, keyVars, llmVars, raceVars, profVars, enrVars, loopVars, runVars, chunkVars, issVars, upVars>>

\* lines 59-62 (stage "profile") and 67-70 (stage "repositories")
FetchStage(stage, next, answer) ==
    /\ epc = stage
    /\ IF answer = "raises"
       THEN Leave(Caught("JSONDecodeError"), stage)
       ELSE IF answer = "empty"
       THEN Leave(ReturnNone, stage)
       ELSE epc' = next /\ UNCHANGED <<returned, failure>>
    /\ UNCHANGED <<repos_seen, processed, issue_matches, candidates, result, eout>>
    /\ UNCHANGED user_skills_data
    /\ UNCHANGED <<srcVars, keyVars, llmVars, raceVars, profVars, enrVars, loopVars, runVars, chunkVars, issVars, upVars>>

\* what get_user_tech_profile returns for n pinned repositories and m
\* repositories of the pools
BuiltFrom(n, m) ==
    Returned146(AddRepositories(
        AddAllPinned(EmptyTechProfile, SubSeq(PinnedPool, 1, n)),
        SubSeq(RepositoryPool, 1, m)))
TechProfiles == {BuiltFrom(0, 0), BuiltFrom(1, 0), BuiltFrom(1, 1)}

\* lines 87-92
SkillsData(tp) == [c \in CategorySet |-> Get(tp, c, <<>>)]

\* lines 75-92: the tech profile, the analyzer, the skills data
PrepareSkills(raises, tp) ==
    /\ epc = "tech_profile"
    /\ IF raises
       THEN Leave(Caught("JSONDecodeError"), "tech_profile") /\ UNCHANGED user_skills_data
       ELSE IF DOMAIN tp = {}
       THEN Leave(ReturnNone, "tech_profile") /\ UNCHANGED user_skills_data
       ELSE /\ user_skills_data' = SkillsData(tp)
            /\ epc' = "issues_file"
            /\ UNCHANGED <<returned, failure>>
    /\ UNCHANGED <<repos_seen, processed, issue_matches, candidates, result, eout>>
    /\ UNCHANGED <<srcVars, keyVars, llmVars, raceVars, profVars, enrVars, loopVars, runVars, chunkVars, issVars, upVars>>

\* github_issues.json: a JSON object, absent, not JSON, not readable, or
\* JSON that is no object
IssuesFiles == {"object", "absent", "invalid_json", "unreadable", "not_object"}

\* lines 96-112: the file is loaded; all_issues.items() is evaluated
LoadIssues(f) ==
    /\ epc = "issues_file"
    /\ IF f = "object"
       THEN epc' = "loop" /\ UNCHANGED <<returned, failure>>
       ELSE IF f \in {"absent", "invalid_json"}
       THEN Leave(ReturnNone, f)
       ELSE IF f = "unreadable"
       THEN Leave(Caught("PermissionError"), f)
       ELSE Leave(Caught("AttributeError"), f)
    /\ UNCHANGED <<repos_seen, processed, issue_matches, candidates, result, eout>>
    /\ UNCHANGED user_skills_data
    /\ UNCHANGED <<srcVars, keyVars, llmVars, raceVars, profVars, enrVars, loopVars, runVars, chunkVars, issVars, upVars>>

\* lines 182-196, or the return of None of lines 169 and 201
BuildResult ==
    /\ epc = "done"
    /\ IF result.t = "ok"
       THEN Leave([t |-> "ok",
                   skills |-> [c \in CategorySet |-> user_skills_data[c]],
                   recommended_issues |-> result.recommended_issues], "none")
       ELSE Leave(ReturnNone,
                  IF issue_matches = <<>> THEN "no_match" ELSE "sort")
    /\ UNCHANGED <<repos_seen, processed, issue_matches, candidates, result, eout>>
    /\ UNCHANGED user_skills_data
    /\ UNCHANGED <<srcVars, keyVars, llmVars, raceVars, profVars, enrVars, loopVars, runVars, chunkVars, issVars, upVars>>

TopIdle ==
    /\ user_skills_data = NoSkills
    /\ returned = NotReturned
    /\ failure = "none"

\* the state at line 52
TopInit ==
    /\ epc = "construct"
    /\ repos_seen = <<>>
    /\ processed = 0
    /\ issue_matches = <<>>
    /\ candidates = <<>>
    /\ result = NoResult
    /\ eout = NoIssue
    /\ TopIdle

-----------------------------------------------------------------------------
(* The two cache operations on their own: src/github_api.py, lines 33-52 *)

\* keys of three fetch methods; the last two get the same file name
PutKeys ==
    {UserDataKey(Chars("ab")), RepoLanguagesKey(Chars("ab"), Chars("bc")),
     RepoLanguagesKey(Chars("ab"), Chars("b.c"))}
PutValues == {JList(<<"v1">>), JList(<<"v2">>)}

\* self._save_to_cache(key, data)
SaveCall(key, data) ==
    /\ pc = "idle"
    /\ cache' = SaveToCache(cache, key, data, clock)
    /\ puts' = RecordPut(puts, key, data, clock)
    /\ last' = [ev |-> "put", key |-> key, at |-> clock, value |-> data,
                before |-> cache]
    /\ UNCHANGED <<clock, ticks, calls, rate_limit, pc, cur, ret>>
    /\ UNCHANGED notSrcVars

\* self._get_from_cache(key)
LookUp(key) ==
    /\ pc = "idle"
    /\ last' = [ev |-> "get", key |-> key, at |-> clock,
                value |-> GetFromCache(cache, key, clock), before |-> cache]
    /\ UNCHANGED <<clock, ticks, calls, cache, puts, rate_limit, pc, cur, ret>>
    /\ UNCHANGED notSrcVars

-----------------------------------------------------------------------------
(* GitHubFetcher.get_user_repositories: the listed repositories, each with
   its language statistics and its detected tech stack (github_fetcher.py
   lines 35-57) *)

\* a listed repository: the fetcher reads its name and its description
Listed(name, description) == [name |-> name, description |-> description]
ListedPool ==
    { Listed("a", Chars("Web backend")), Listed("b", <<>>), Listed("c", <<>>) }

\* the lists of at most n distinct repositories, in every order
RECURSIVE ListsOf(_)
ListsOf(n) ==
    IF n = 0 THEN {<<>>}
    ELSE LET shorter == ListsOf(n - 1) IN
         shorter \cup { Append(l, r) : l \in shorter, r \in ListedPool }
DistinctLists(n) ==
    { l \in ListsOf(n) : \A i, j \in 1..Len(l) : l[i] = l[j] => i = j }

\* how a call of the client ends for the fetcher: with its value, with its
\* empty value after a request that failed (github_api.py lines 118-133,
\* 364-370, 425-447), or with the exception of a cache file that cannot be
\* read (lines 37-38, outside the try of every method)
Answer(k, v) == [k |-> k, v |-> v]
ListAnswers ==
    { Answer("ok", l) : l \in DistinctLists(MaxRepos) }
        \cup {Answer("failed", <<>>), Answer("raised", <<>>)}
LanguageAnswers ==
    { Answer("ok", <<>>), Answer("ok", <<"Python">>),
      Answer("failed", <<>>), Answer("raised", <<>>) }
TechStackAnswers ==
    { Answer("ok", <<>>), Answer("ok", <<"Docker">>),
      Answer("failed", <<>>), Answer("raised", <<>>) }

NotEnhanced == [t |-> "none", v |-> <<>>]
Call(call, name, a) == [call |-> call, name |-> name, k |-> a.k, v |-> a.v]

\* lines 51-55
Enhance(repo, languages, stack) ==
    [name |-> repo.name, description |-> repo.description,
     language_stats |-> languages, detected_tech_stack |-> stack]

HasStats(repo, languages, stack) == languages # <<>> \/ stack # <<>>

\* line 50
HasContent(repo, languages, stack) ==
    languages # <<>> \/ stack # <<>> \/ repo.description # <<>>

\* an exception of the client leaves the method: it has no handler
EnrRaise ==
    /\ fpc' = "done"
    /\ enhanced' = [t |-> "raised", v |-> <<>>]

\* lines 37-41
ListRepositories(a) ==
    /\ fpc = "start"
    /\ issued' = Append(issued, Call("list", "", a))
    /\ CASE a.k = "raised" ->
              EnrRaise /\ UNCHANGED <<listed_repos, idx>>
         [] a.k # "raised" /\ a.v = <<>> ->
              /\ fpc' = "done"
              /\ enhanced' = [t |-> "list", v |-> <<>>]
              /\ UNCHANGED <<listed_repos, idx>>
         [] OTHER ->
              /\ fpc' = "languages"
              /\ listed_repos' = a.v
              /\ idx' = 1
              /\ UNCHANGED enhanced
    /\ UNCHANGED <<language_stats, enhanced_repos>>
    /\ UNCHANGED notEnrVars

\* line 44
GetLanguages(a) ==
    /\ fpc = "languages"
    /\ issued' = Append(issued, Call("languages", listed_repos[idx].name, a))
    /\ IF a.k = "raised"
       THEN EnrRaise /\ UNCHANGED language_stats
       ELSE fpc' = "tech_stack" /\ language_stats' = a.v /\ UNCHANGED enhanced
    /\ UNCHANGED <<listed_repos, idx, enhanced_repos>>
    /\ UNCHANGED notEnrVars

\* the list after the repository at idx: lines 50-55
Appended(list, repo, languages, stack) ==
    IF HasContent(repo, languages, stack)
    THEN Append(list, Enhance(repo, languages, stack))
    ELSE list

\* lines 47-57
DetectStack(a) ==
    /\ fpc = "tech_stack"
    /\ issued' = Append(issued, Call("tech_stack", listed_repos[idx].name, a))
    /\ IF a.k = "raised"
       THEN EnrRaise /\ UNCHANGED <<idx, enhanced_repos>>
       ELSE /\ enhanced_repos' =
                  Appended(enhanced_repos, listed_repos[idx], language_stats, a.v)
            /\ idx' = idx + 1
            /\ IF idx < Len(listed_repos)
               THEN fpc' = "languages" /\ UNCHANGED enhanced
               ELSE fpc' = "done"
                    /\ enhanced' = [t |-> "list", v |-> enhanced_repos']
    /\ UNCHANGED <<listed_repos, language_stats>>
    /\ UNCHANGED notEnrVars

EnrIdle ==
    /\ fpc = "start"
    /\ listed_repos = <<>>
    /\ idx = 0
    /\ language_stats = <<>>
    /\ enhanced_repos = <<>>
    /\ issued = <<>>
    /\ enhanced = NotEnhanced

\* the next call of the method
CallAgain ==
    /\ fpc = "done"
    /\ fpc' = "start"
    /\ listed_repos' = <<>>
    /\ idx' = 0
    /\ language_stats' = <<>>
    /\ enhanced_repos' = <<>>
    /\ issued' = <<>>
    /\ enhanced' = NotEnhanced
    /\ UNCHANGED notEnrVars

-----------------------------------------------------------------------------
(* The issue loop call by call: src/main.py, lines 112-135, and
   src/gemini_analyzer.py, lines 136-149 and 191-205 *)

MaxLoopIssues == 3

\* time.sleep(1), gemini_analyzer.py line 137
InterCallDelay == 1

\* an entry of the timeline
Event(ev, call, n, truthy, secs) ==
    [ev |-> ev, call |-> call, issue |-> n, truthy |-> truthy, secs |-> secs]
Delayed(n, secs) == Event("delay", "none", n, FALSE, secs)
Started(call, n) == Event("start", call, n, FALSE, 0)
Ended(call, n, truthy) == Event("end", call, n, truthy, 0)

\* what _call_gemini_api hands to analyze_issue: a response, None, or the
\* exception of line 42, which line 147 turns into None
ExtractionOutcomes == ExtractionReplies \cup {[t |-> "raised"]}
ComparisonOutcomes == ComparisonReplies \cup {[t |-> "raised"]}

GoesOnAnyway(requirements) == TRUE

\* main.py lines 128-130: the loop goes on to the comparison
GoesOn(requirements) == Truthy(requirements)

\* lines 114-124: the next issue is read; 'labels': null ends the body at
\* line 120 in the handler of line 163, before any call
NextIssue(rec) ==
    /\ lpc = "loop"
    /\ issue_no < MaxLoopIssues
    /\ issue_no' = issue_no + 1
    /\ lpc' = IF rec = "labels_null" THEN "loop" ELSE "analyze"
    /\ issue_requirements' = JNull
    /\ UNCHANGED timeline
    /\ UNCHANGED notLoopVars

\* gemini_analyzer.py line 137
Delay ==
    /\ lpc = "analyze"
    /\ lpc' = "extract"
    /\ timeline' = Append(timeline, Delayed(issue_no, InterCallDelay))
    /\ UNCHANGED <<issue_no, issue_requirements>>
    /\ UNCHANGED notLoopVars

\* line 139: _call_gemini_api is entered with the extraction prompt
ExtractionStarts ==
    /\ lpc = "extract"
    /\ lpc' = "extracting"
    /\ timeline' = Append(timeline, Started("extraction", issue_no))
    /\ UNCHANGED <<issue_no, issue_requirements>>
    /\ UNCHANGED notLoopVars

\* lines 139-149 and main.py lines 127-130: the call is back, analyze_issue
\* returns
ExtractionEnds(reply) ==
    /\ lpc = "extracting"
    /\ LET requirements == analyze_issue(reply) IN
          /\ issue_requirements' = requirements
          /\ timeline' = Append(timeline,
                                Ended("extraction", issue_no, Truthy(requirements)))
          /\ lpc' = IF GoesOn(requirements) THEN "compare" ELSE "loop"
    /\ UNCHANGED issue_no
    /\ UNCHANGED notLoopVars

\* main.py line 133, gemini_analyzer.py line 192
ComparisonStarts ==
    /\ lpc = "compare"
    /\ lpc' = "comparing"
    /\ timeline' = Append(timeline, Started("comparison", issue_no))
    /\ UNCHANGED <<issue_no, issue_requirements>>
    /\ UNCHANGED notLoopVars

\* gemini_analyzer.py lines 192-214: the call is back; the rest of the loop
\* body makes no call
ComparisonEnds(reply) ==
    /\ lpc = "comparing"
    /\ lpc' = "loop"
    /\ timeline' = Append(timeline,
                          Ended("comparison", issue_no,
                                Truthy(compare_skills(reply))))
    /\ UNCHANGED <<issue_no, issue_requirements>>
    /\ UNCHANGED notLoopVars

\* main.py line 167: the issues are exhausted
LoopEnds ==
    /\ lpc = "loop"
    /\ lpc' = "done"
    /\ UNCHANGED <<issue_no, issue_requirements, timeline>>
    /\ UNCHANGED notLoopVars

LoopIdle ==
    /\ lpc = "idle"
    /\ issue_no = 0
    /\ issue_requirements = JNull
    /\ timeline = <<>>

\* the state at line 112
LoopInit ==
    /\ lpc = "loop"
    /\ issue_no = 0
    /\ issue_requirements = JNull
    /\ timeline = <<>>

-----------------------------------------------------------------------------
(* The fetches of one run: src/main.py, lines 57-79, with
   src/github_fetcher.py, lines 8-33 and 67-70 *)

\* the client calls of get_user_profile, in the order of lines 10-24
ProfileResources ==
    <<"user_data", "pinned_repositories", "profile_readme", "recent_events",
      "gists">>

\* what the cache holds of a resource: nothing fresh, a fresh entry with a
\* truthy payload, a fresh entry with a falsy payload ([] or "")
Entries == {"absent", "truthy", "falsy"}

\* how an upstream request for the resource ends: 200 with a payload, 200
\* with an empty payload, or a failure; the record kept of user data has
\* five keys whatever the answer holds (github_api.py lines 83-95)
Upstream(resource) ==
    IF resource = "user_data" THEN {"ok_truthy", "failed"}
    ELSE {"ok_truthy", "ok_falsy", "failed"}

\* 'if cached_data: return cached_data' (github_api.py lines 74-76, 187-189,
\* 254-256, 279-281, 318-320)
ServedFromCache(entry) == entry = "truthy"

\* the cache after the request: only a 200 answer is saved
StoreAfter(entry, answer) ==
    CASE answer = "ok_truthy" -> "truthy"
      [] answer = "ok_falsy" -> "falsy"
      [] OTHER -> entry

\* one client call of get_user_profile (github_fetcher.py lines 10-33),
\* upstream answering `answer` if it is asked
FetchResource(answer) ==
    /\ profile_pass \in {1, 2}
    /\ fetching \in 1..Len(ProfileResources)
    /\ LET resource == ProfileResources[fetching]
           cached == ServedFromCache(store[resource])
           got == cached \/ answer = "ok_truthy"
       IN /\ answer \in Upstream(resource)
          /\ requested' = IF cached THEN requested
                          ELSE [requested EXCEPT ![resource] = @ + 1]
          /\ store' = IF cached THEN store
                      ELSE [store EXCEPT ![resource] = StoreAfter(@, answer)]
          /\ IF fetching = 1 /\ ~got
             THEN \* lines 11-12, then main.py line 62 or the empty profile
                  \* of github_fetcher.py line 69
                  /\ profile_pass' = 3
                  /\ UNCHANGED <<fetching, profiles_built>>
             ELSE /\ fetching' = fetching + 1
                  /\ profiles_built' =
                        IF fetching = Len(ProfileResources)
                        THEN profiles_built + 1 ELSE profiles_built
                  /\ profile_pass' =
                        IF fetching = Len(ProfileResources) /\ profile_pass = 2
                        THEN 3 ELSE profile_pass
    /\ UNCHANGED notRunVars

\* main.py lines 67-75: the repositories are fetched and, unless the list
\* is empty, get_user_tech_profile is called, which calls get_user_profile
\* (github_fetcher.py line 69)
FetchRepositories(some) ==
    /\ profile_pass = 1
    /\ fetching = Len(ProfileResources) + 1
    /\ IF some
       THEN profile_pass' = 2 /\ fetching' = 1
       ELSE profile_pass' = 3 /\ UNCHANGED fetching
    /\ UNCHANGED <<store, requested, profiles_built>>
    /\ UNCHANGED notRunVars

NoRequests == [r \in {ProfileResources[i] : i \in 1..5} |-> 0]

RunIdle ==
    /\ profile_pass = 0
    /\ fetching = 0
    /\ store = [r \in DOMAIN NoRequests |-> "absent"]
    /\ requested = NoRequests
    /\ profiles_built = 0

\* the state at line 59: the cache as earlier runs left it
RunInit ==
    /\ profile_pass = 1
    /\ fetching = 1
    /\ store \in [DOMAIN NoRequests -> Entries]
    /\ requested = NoRequests
    /\ profiles_built = 0

-----------------------------------------------------------------------------
(* Batches of the configured repositories: src/fetch_issues.py,
   lines 235-237 *)

MaxLen == 4
MaxSize == 3

SliceOverlapping(l, from, to) == SubSeq(l, from + 1, Min(to + 1, Len(l)))

\* l[from:to] for 0 <= from <= to: the end is cut at len(l)
Slice(l, from, to) == SubSeq(l, from + 1, Min(to, Len(l)))

\* line 236-237: range(0, len(lst), n) has a next value, the chunk at it is
\* yielded
YieldChunk ==
    /\ ~exhausted
    /\ chunk_at < Len(lst)
    /\ yielded' = Append(yielded, Slice(lst, chunk_at, chunk_at + size))
    /\ chunk_at' = chunk_at + size
    /\ UNCHANGED <<lst, size, exhausted>>
    /\ UNCHANGED notChunkVars

\* line 236: the range is exhausted, the generator returns
Exhaust ==
    /\ ~exhausted
    /\ chunk_at >= Len(lst)
    /\ exhausted' = TRUE
    /\ UNCHANGED <<lst, size, chunk_at, yielded>>
    /\ UNCHANGED notChunkVars

RECURSIVE ListsUpTo(_)
ListsUpTo(len) ==
    IF len = 0 THEN {<<>>}
    ELSE LET shorter == ListsUpTo(len - 1) IN
         shorter \cup { Append(l, x) : l \in shorter, x \in {"a", "b"} }

ChunkIdle ==
    /\ lst = <<>>
    /\ size = 0
    /\ chunk_at = 0
    /\ yielded = <<>>
    /\ exhausted = TRUE

\* chunked(lst, n) is called: the step of range() must not be 0
ChunkInit ==
    /\ lst \in ListsUpTo(MaxLen)
    /\ size \in 1..MaxSize
    /\ chunk_at = 0
    /\ yielded = <<>>
    /\ exhausted = FALSE

-----------------------------------------------------------------------------
(* The ingestion of the issues: src/fetch_issues.py, lines 193-265 *)

MaxConfigured == 27

\* chunked(repos, 25), line 245
BatchSize == 25

\* the configured list: a repository is named by its place in the list,
\* counted from 0
Configured(count) == [i \in 1..count |-> i - 1]

\* what is kept under a name: nothing, or the issue nodes returned for the
\* repository `of`
Nothing == [stored |-> FALSE, of |-> 0]
NodesOf(repo) == [stored |-> TRUE, of |-> repo]

\* how the request of a batch ends: an answer with data for every alias,
\* null for the alias `null` if it is one of the batch (a repository that
\* does not exist), an answer with errors, or a failed request
BatchAnswers ==
    { [k |-> "data", null |-> i] : i \in 0..BatchSize }
        \cup { [k |-> "errors", null |-> 0], [k |-> "failed", null |-> 0] }

\* lines 195-226: enumerate(repo_list) gives the alias repo<i> to the
\* repository at i of the batch; the answer holds its data under the alias
AliasOf(batch, i) == batch[i + 1]

\* lines 258-259: repo_index = int(key.replace("repo", "")),
\* repo_name = repos[repo_index]
NameOfAlias(batch, i) == configured[i + 1]

RECURSIVE StoreData(_, _, _, _)
\* lines 256-264: the items of data, alias by alias from i on
StoreData(store_, batch, null, i) ==
    IF i >= Len(batch) THEN store_
    ELSE StoreData(IF i = null THEN store_
                   ELSE [store_ EXCEPT ![NameOfAlias(batch, i)] =
                            NodesOf(AliasOf(batch, i))],
                   batch, null, i + 1)

\* lines 245-268: the next batch is queried and its answer processed
ProcessBatch(answer) ==
    /\ ipc = "batches"
    /\ batch_from < Len(configured)
    /\ LET batch == Slice(configured, batch_from, batch_from + BatchSize) IN
          /\ answer.null <= Len(batch)
          /\ all_issues' = IF answer.k = "data"
                           THEN StoreData(all_issues, batch, answer.null, 0)
                           ELSE all_issues
          /\ queried' = IF answer.k = "data"
                        THEN queried \cup
                                { batch[i] : i \in (1..Len(batch))
                                                      \ {answer.null + 1} }
                        ELSE queried
    /\ batch_from' = batch_from + BatchSize
    /\ UNCHANGED <<ipc, configured>>
    /\ UNCHANGED notIssVars

\* lines 270-272: the store is dumped to github_issues.json
WriteIssuesFile ==
    /\ ipc = "batches"
    /\ batch_from >= Len(configured)
    /\ ipc' = "written"
    /\ UNCHANGED <<configured, batch_from, all_issues, queried>>
    /\ UNCHANGED notIssVars

IssIdle ==
    /\ ipc = "idle"
    /\ configured = <<>>
    /\ batch_from = 0
    /\ all_issues = <<>>
    /\ queried = {}

\* line 240, with a configured list of `count` repositories
IssInit ==
    /\ ipc = "batches"
    /\ configured \in { Configured(count) : count \in 0..MaxConfigured }
    /\ batch_from = 0
    /\ all_issues = [name \in 0..(Len(configured) - 1) |-> Nothing]
    /\ queried = {}

-----------------------------------------------------------------------------
(* GitHubFetcher.get_user_profile: the base user data and the four further
   resources (github_fetcher.py lines 8-33) *)

\* the record get_user_data keeps of a user (github_api.py lines 83-95)
BaseFields == {"name", "bio", "location", "company", "public_repos"}
BaseData == [f \in BaseFields |-> JStr(<<"x">>)]

\* {}: the dict without keys
EmptyDict == [f \in {} |-> JNull]

\* the four calls of lines 15-24 and the key each result is kept under
PartCalls ==
    << [call |-> "get_pinned_repositories", key |-> "pinned_repositories",
        some |-> JList(<<"pinned1">>), nothing |-> JList(<<>>)],
       [call |-> "get_profile_readme", key |-> "profile_readme",
        some |-> JStr(<<"h", "i">>), nothing |-> JNull],
       [call |-> "get_user_events", key |-> "recent_events",
        some |-> JList(<<"PushEvent">>), nothing |-> JList(<<>>)],
       [call |-> "get_user_gists", key |-> "gists",
        some |-> JList(<<"gist1">>), nothing |-> JList(<<>>)] >>

\* how a client call ends: with a value, with an empty value that upstream
\* gave, with its empty value after a request that failed, or with the
\* exception of a cache file that cannot be read; a user that upstream
\* knows always has the five fields
Endings == {"some", "nothing", "failed", "raised"}
UserEndings == {"some", "failed", "raised"}

Made(call, ending) == [call |-> call, ending |-> ending]
NoProfile == [t |-> "none", v |-> EmptyDict]

NeverMissing(data) == FALSE

\* line 11: `if not profile_data`
Missing(data) == DOMAIN data = {}

\* {**d, key: value}
Merge(d, key, value) ==
    [f \in DOMAIN d \cup {key} |-> IF f = key THEN value ELSE d[f]]

RECURSIVE Combined(_, _, _)
\* lines 27-33: the base data with the four results, from the i-th on
Combined(d, values, i) ==
    IF i > Len(values) THEN d
    ELSE Combined(Merge(d, PartCalls[i].key, values[i]), values, i + 1)

\* an exception of the client leaves the method: it has no handler
UpRaise ==
    /\ upc' = "done"
    /\ user_profile' = [t |-> "raised", v |-> EmptyDict]

\* lines 10-12
LookUpUser(ending) ==
    /\ upc = "start"
    /\ up_calls' = Append(up_calls, Made("get_user_data", ending))
    /\ LET data == IF ending = "some" THEN BaseData ELSE EmptyDict IN
       CASE ending = "raised" -> UpRaise /\ UNCHANGED profile_data
         [] ending # "raised" /\ Missing(data) ->
              /\ upc' = "done"
              /\ user_profile' = [t |-> "dict", v |-> EmptyDict]
              /\ UNCHANGED profile_data
         [] OTHER ->
              /\ upc' = "parts"
              /\ profile_data' = data
              /\ UNCHANGED user_profile
    /\ UNCHANGED gathered
    /\ UNCHANGED notUpVars

\* lines 15-33: the next of the four calls; after the last the profile is
\* put together and returned
FetchPart(ending) ==
    /\ upc = "parts"
    /\ LET part == PartCalls[Len(gathered) + 1]
           value == IF ending = "some" THEN part.some ELSE part.nothing
           values == Append(gathered, value)
       IN /\ up_calls' = Append(up_calls, Made(part.call, ending))
          /\ IF ending = "raised"
             THEN UpRaise /\ UNCHANGED gathered
             ELSE /\ gathered' = values
                  /\ IF Len(values) < Len(PartCalls)
                     THEN UNCHANGED <<upc, user_profile>>
                     ELSE /\ upc' = "done"
                          /\ user_profile' =
                                [t |-> "dict",
                                 v |-> Combined(profile_data, values, 1)]
    /\ UNCHANGED profile_data
    /\ UNCHANGED notUpVars

UpIdle ==
    /\ upc = "start"
    /\ profile_data = EmptyDict
    /\ gathered = <<>>
    /\ up_calls = <<>>
    /\ user_profile = NoProfile

\* the next call of the method
ProfileAgain ==
    /\ upc = "done"
    /\ upc' = "start"
    /\ profile_data' = EmptyDict
    /\ gathered' = <<>>
    /\ up_calls' = <<>>
    /\ user_profile' = NoProfile
    /\ UNCHANGED notUpVars

-----------------------------------------------------------------------------
Init == SrcInit /\ KeyIdle /\ EngIdle /\ LlmIdle /\ RaceIdle /\ ProfIdle /\ TopIdle /\ EnrIdle /\ LoopIdle /\ RunIdle /\ ChunkIdle /\ IssIdle /\ UpIdle
Next == SrcNext
Spec == Init /\ [][Next]_vars

SrcIdle ==
    /\ clock = 0
    /\ ticks = 0
    /\ calls = 0
    /\ cache = <<>>
    /\ puts = <<>>
    /\ rate_limit = [remaining |-> 0, reset |-> 0]
    /\ pc = "idle"
    /\ cur = Idle
    /\ last = NoEvent
    /\ ret = NoReturn

InitKeys == KeyInit /\ SrcIdle /\ EngIdle /\ LlmIdle /\ RaceIdle /\ ProfIdle /\ TopIdle /\ EnrIdle /\ LoopIdle /\ RunIdle /\ ChunkIdle /\ IssIdle /\ UpIdle
NextKeys == LookUpPaths
KeySpec == InitKeys /\ [][NextKeys]_vars

InitEngine == EngInit /\ SrcIdle /\ KeyIdle /\ LlmIdle /\ RaceIdle /\ ProfIdle /\ TopIdle /\ EnrIdle /\ LoopIdle /\ RunIdle /\ ChunkIdle /\ IssIdle /\ UpIdle
NextEngine ==
    \/ \E r \in IssueRepos : NextRepo(r)
    \/ \E o \in IssueOutcomes : ProcessIssue(o, MaxIssues)
    \/ RankAndReturn
EngineSpec == InitEngine /\ [][NextEngine]_vars

NextRank ==
    \/ \E r \in IssueRepos : NextRepo(r)
    \/ \E o \in RankOutcomes : ProcessIssue(o, MaxRankIssues)
    \/ RankAndReturn
RankSpec == InitEngine /\ [][NextRank]_vars

InitCall == LlmIdle /\ SrcIdle /\ KeyIdle /\ EngIdle /\ RaceIdle /\ ProfIdle /\ TopIdle /\ EnrIdle /\ LoopIdle /\ RunIdle /\ ChunkIdle /\ IssIdle /\ UpIdle
NextCall ==
    \/ CallGeminiApi
    \/ BeginAttempt
    \/ Post
CallSpec == InitCall /\ [][NextCall]_vars

NextAnalysis ==
    \/ \E r \in IssueRepos : NextRepo(r)
    \/ \E rec \in IssueRecords, e \in ExtractionReplies, c \in ComparisonReplies :
          AnalyseIssue(rec, e, c)
    \/ RankAndReturn
AnalysisSpec == InitEngine /\ [][NextAnalysis]_vars

InitRace == RaceInit /\ SrcIdle /\ KeyIdle /\ EngIdle /\ LlmIdle /\ ProfIdle /\ TopIdle /\ EnrIdle /\ LoopIdle /\ RunIdle /\ ChunkIdle /\ IssIdle /\ UpIdle
NextRace ==
    \/ \E w \in Writers : OpenForWrite(w)
    \/ \E w \in Writers : WriteChunk(w)
    \/ \E w \in Writers : CloseFile(w)
    \/ ReadCache
RaceSpec == InitRace /\ [][NextRace]_vars

InitProfile ==
    ProfInit /\ SrcIdle /\ KeyIdle /\ EngIdle /\ LlmIdle /\ RaceIdle /\ TopIdle
    /\ EnrIdle /\ LoopIdle /\ RunIdle /\ ChunkIdle /\ IssIdle /\ UpIdle
NextProfile ==
    \/ ProcessPinned
    \/ ProcessRepositories
    \/ ProcessReadme
    \/ ReturnProfile
    \/ RunAgain
ProfileSpec == InitProfile /\ [][NextProfile]_vars

InitTop ==
    TopInit /\ SrcIdle /\ KeyIdle /\ LlmIdle /\ RaceIdle /\ ProfIdle
    /\ EnrIdle /\ LoopIdle /\ RunIdle /\ ChunkIdle /\ IssIdle /\ UpIdle
NextTop ==
    \/ \E a \in {"data", "raises"} : Construct(a)
    \/ \E a \in FetchAnswers : FetchStage("profile", "repositories", a)
    \/ \E a \in FetchAnswers : FetchStage("repositories", "tech_profile", a)
    \/ \E raises \in BOOLEAN, tp \in TechProfiles : PrepareSkills(raises, tp)
    \/ \E f \in IssuesFiles : LoadIssues(f)
    \/ \E r \in IssueRepos : NextRepo(r)
    \/ \E o \in IssueOutcomes : ProcessIssue(o, MaxAnalysed)
    \/ RankAndReturn
    \/ BuildResult
TopSpec == InitTop /\ [][NextTop]_vars

NextPut ==
    \/ Tick
    \/ \E k \in PutKeys, v \in PutValues : SaveCall(k, v)
    \/ \E k \in PutKeys : LookUp(k)
PutSpec == Init /\ [][NextPut]_vars

InitEnrich ==
    EnrIdle /\ SrcIdle /\ KeyIdle /\ EngIdle /\ LlmIdle /\ RaceIdle /\ ProfIdle
    /\ TopIdle /\ LoopIdle /\ RunIdle /\ ChunkIdle /\ IssIdle /\ UpIdle
NextEnrich ==
    \/ \E a \in ListAnswers : ListRepositories(a)
    \/ \E a \in LanguageAnswers : GetLanguages(a)
    \/ \E a \in TechStackAnswers : DetectStack(a)
    \/ CallAgain
EnrichSpec == InitEnrich /\ [][NextEnrich]_vars

InitLoop ==
    LoopInit /\ SrcIdle /\ KeyIdle /\ EngIdle /\ LlmIdle /\ RaceIdle /\ ProfIdle
    /\ TopIdle /\ EnrIdle /\ RunIdle /\ ChunkIdle /\ IssIdle /\ UpIdle
NextLoop ==
    \/ \E rec \in IssueRecords : NextIssue(rec)
    \/ Delay
    \/ ExtractionStarts
    \/ \E reply \in ExtractionOutcomes : ExtractionEnds(reply)
    \/ ComparisonStarts
    \/ \E reply \in ComparisonOutcomes : ComparisonEnds(reply)
    \/ LoopEnds
LoopSpec == InitLoop /\ [][NextLoop]_vars

InitRun ==
    RunInit /\ SrcIdle /\ KeyIdle /\ EngIdle /\ LlmIdle /\ RaceIdle /\ ProfIdle
    /\ TopIdle /\ EnrIdle /\ LoopIdle /\ ChunkIdle /\ IssIdle /\ UpIdle
NextRun ==
    \/ \E answer \in {"ok_truthy", "ok_falsy", "failed"} : FetchResource(answer)
    \/ \E some \in BOOLEAN : FetchRepositories(some)
RunSpec == InitRun /\ [][NextRun]_vars

InitChunk ==
    ChunkInit /\ SrcIdle /\ KeyIdle /\ EngIdle /\ LlmIdle /\ RaceIdle /\ ProfIdle
    /\ TopIdle /\ EnrIdle /\ LoopIdle /\ RunIdle /\ IssIdle /\ UpIdle
NextChunk ==
    \/ YieldChunk
    \/ Exhaust
ChunkSpec == InitChunk /\ [][NextChunk]_vars

InitIssues ==
    IssInit /\ SrcIdle /\ KeyIdle /\ EngIdle /\ LlmIdle /\ RaceIdle /\ ProfIdle
    /\ TopIdle /\ EnrIdle /\ LoopIdle /\ RunIdle /\ ChunkIdle /\ UpIdle
NextIssues ==
    \/ \E answer \in BatchAnswers : ProcessBatch(answer)
    \/ WriteIssuesFile
IssuesSpec == InitIssues /\ [][NextIssues]_vars

InitUser ==
    UpIdle /\ SrcIdle /\ KeyIdle /\ EngIdle /\ LlmIdle /\ RaceIdle /\ ProfIdle
    /\ TopIdle /\ EnrIdle /\ LoopIdle /\ RunIdle /\ ChunkIdle /\ IssIdle
NextUser ==
    \/ \E ending \in UserEndings : LookUpUser(ending)
    \/ \E ending \in Endings : FetchPart(ending)
    \/ ProfileAgain
UserSpec == InitUser /\ [][NextUser]_vars

-----------------------------------------------------------------------------
(* Claims about the disk cache, the guard and the source client *)

\* C1: a lookup returns the payload of the last _save_to_cache of its file
\* while that save is less than cache_duration (3600 s) old, and None once
\* the save is 3600 s old or older; it never returns an older payload.
C1_CacheRoundTrip ==
    (last.ev = "call" /\ last.path \in DOMAIN puts) =>
        IF last.at - puts[last.path].at < 3600
        THEN last.cached = puts[last.path].v
        ELSE last.cached = JNull

\* a lookup 3599 s after the save of a non-empty payload returned it
C1_Witness ==
    /\ last.ev = "call"
    /\ last.path \in DOMAIN puts
    /\ last.at - puts[last.path].at = 3599
    /\ Truthy(last.cached)
    /\ last.cached = puts[last.path].v

\* C5: the guard sleeps until reset + 10 when the probed remaining is below
\* 10 and does not sleep otherwise (10 and 50 included), so no upstream
\* request is issued while the last probed remaining is below 10 and the
\* clock is before reset + 10.
C5_GuardBlocks ==
    /\ last.ev = "guard" =>
          last.slept = IF rate_limit.remaining < 10
                          /\ last.at < rate_limit.reset + 10
                       THEN rate_limit.reset + 10 - last.at
                       ELSE 0
    /\ last.ev = "request" =>
          ~(rate_limit.remaining < 10 /\ last.at < rate_limit.reset + 10)

\* the guard probed remaining = 5 with the reset 20 s ahead and slept 30 s
C5_Witness ==
    /\ last.ev = "guard"
    /\ rate_limit.remaining = 5
    /\ rate_limit.reset = last.at + 20
    /\ last.slept = 30
    /\ clock = last.at + 30

\* C6: every upstream request of a fetch method is preceded by its own
\* _wait_for_rate_limit call since the previous upstream request.
C6_EveryRequestGuarded == last.ev = "request" => last.guarded

\* C7: two distinct logical cache keys of the fetch methods get distinct
\* cache files.
C7_DistinctKeysDistinctPaths ==
    (pathA # NoPath /\ keyA # keyB) => pathA # pathB

\* C8: a fetch method that finds an unexpired entry under its key, whatever
\* the payload, returns that payload without a probe or an upstream request;
\* without such an entry it calls the guard first.
C8_CacheFirst ==
    ret.method # "none" =>
        IF ret.fresh
        THEN ret.value = ret.entry /\ ret.probes = 0 /\ ret.requests = 0
        ELSE ret.probes >= 1

C15_ProbeFailureProceeds ==
    /\ (last.ev = "guard" /\ rate_limit = [remaining |-> 0, reset |-> 0]) =>
          last.slept = 0 /\ pc \in {"request", "item"}
    /\ last.ev = "probe_error" => pc \in {"request", "item"}

-----------------------------------------------------------------------------
(* Claims about the recommendation engine *)

\* the issue just processed has a comparison result with match_percentage p
LastPercentage(p) ==
    /\ epc = "loop"
    /\ eout.seen
    /\ eout.outcome.record = "ok"
    /\ Truthy(eout.outcome.requirements)
    /\ eout.outcome.skill_match.match_percentage.t = "num"
    /\ eout.outcome.skill_match.match_percentage.v = p

\* the issue just processed is the last element of issue_matches
LastIncluded ==
    /\ issue_matches # <<>>
    /\ issue_matches[Len(issue_matches)].issue_title = eout.title
    /\ issue_matches[Len(issue_matches)].repo_name = eout.repo

\* C2 as stated: an issue whose comparison result has match_percentage 29.9
\* is excluded from the recommendations, one with 30.0 is included
C2_ThresholdAsStated ==
    /\ LastPercentage(299) => ~LastIncluded
    /\ LastPercentage(300) => LastIncluded

\* C2, amended: an issue is excluded exactly when its score, a tenth of the
\* percentage rounded to one decimal, is below 3.0: 29.4 is excluded, 29.9
\* is included with the score 3.0 it rounds to, and 30.0 is included with
\* score 3.0
C2_ThresholdOnRoundedScore ==
    /\ LastPercentage(294) => ~LastIncluded
    /\ LastPercentage(299) =>
          LastIncluded /\ issue_matches[Len(issue_matches)].match_score = 30
    /\ LastPercentage(300) =>
          LastIncluded /\ issue_matches[Len(issue_matches)].match_score = 30

C2_Witness ==
    /\ LastPercentage(299)
    /\ LastIncluded
    /\ issue_matches[Len(issue_matches)].match_percentage = 299

Swap(ms, i, j) ==
    [k \in 1..Len(ms) |->
        IF k = i THEN ms[j] ELSE IF k = j THEN ms[i] ELSE ms[k]]

\* C3: whichever two recommendations trade places in the input, the sorted
\* sequence analyze_github_user produces is the same
C3_OrderIndependentOfInput ==
    (epc = "done" /\ result.t = "ok") =>
        \A i, j \in 1..Len(candidates) :
            SortMatches(Swap(candidates, i, j)) = issue_matches

\* (match_percentage, number of matching skills, repository name) of a
\* sorts strictly before that of b
SortsBefore(a, b) ==
    \/ a.match_percentage > b.match_percentage
    \/ /\ a.match_percentage = b.match_percentage
       /\ Len(a.matching_skills.v) > Len(b.matching_skills.v)
    \/ /\ a.match_percentage = b.match_percentage
       /\ Len(a.matching_skills.v) = Len(b.matching_skills.v)
       /\ StrLess(a.repo_name, b.repo_name)

Returned(c) ==
    \E k \in 1..Len(result.recommended_issues) : result.recommended_issues[k] = c

\* C4: the returned recommended_issues are min(5, n) of the n filtered
\* candidates (5 of 7), in sorted order, and no candidate left out sorts
\* strictly before one that is returned
C4_TruncateAfterSort ==
    (epc = "done" /\ result.t = "ok") =>
        LET top == result.recommended_issues
            n == Len(candidates)
        IN /\ Len(top) = (IF n < 5 THEN n ELSE 5)
           /\ n = 7 => Len(top) = 5
           /\ \A k \in 1..Len(top) : \E i \in 1..n : candidates[i] = top[k]
           /\ \A k, l \in 1..Len(top) : k < l =>
                  top[k] # top[l] /\ ~SortsBefore(top[l], top[k])
           /\ \A i \in 1..n : ~Returned(candidates[i]) =>
                  \A k \in 1..Len(top) : ~SortsBefore(candidates[i], top[k])

C4_Witness ==
    /\ epc = "done"
    /\ result.t = "ok"
    /\ Len(candidates) = 7
    /\ Len(result.recommended_issues) = 5
    /\ \E i \in 6..7 : \E k \in 1..5 :
          /\ result.recommended_issues[k] = candidates[i]
          /\ SortsBefore(candidates[i], candidates[1])
    /\ \E i \in 1..5 : ~Returned(candidates[i])

\* C10: whatever one issue's record, extraction result or comparison result
\* looks like, every other issue that passed the threshold is in the result
C10_BadIssueContained ==
    epc = "done" =>
        \A i \in 1..Len(candidates) :
            HasLen(candidates[i].matching_skills) =>
                \E k \in 1..Len(issue_matches) :
                    /\ issue_matches[k] = candidates[i]
                    /\ k <= 5 => result.t = "ok" /\ Returned(candidates[i])

-----------------------------------------------------------------------------
(* Claims about the LLM call *)

\* C13: the wait between a 429 answer and the next POST is the Retry-After
\* value of that answer (30 when the header is absent), with no backoff
\* added
C13_RetryAfterOverridesBackoff ==
    (lev.ev = "post" /\ lev.after.k = "status" /\ lev.after.code = 429) =>
        lev.waited = RetryAfter(lev.after.retry_after).v

\* C14: whatever the answers are, _call_gemini_api makes at most 3 POSTs,
\* sleeps min(2^attempt, 30) s before the POST of attempt >= 1, counts a 429
\* as an attempt, and returns the first successful response or None
C14_RetryBounded ==
    /\ posts <= 3
    /\ lev.ev = "post" =>
          /\ posts = lev.attempt + 1
          /\ lev.attempt >= 1 =>
                lev.backoff = (IF 2 ^ lev.attempt < 30 THEN 2 ^ lev.attempt ELSE 30)
    /\ cpc = "done" =>
          /\ api.t \in {"response", "none"}
          /\ api.t = "response" => prev.k = "ok" /\ api.body = prev.body
          /\ api.t = "none" => posts = 3 /\ prev.k # "ok"

-----------------------------------------------------------------------------
(* Claims about the analysis of one issue *)

\* the reply is a response with one candidate of one part, a text
HasLeaf(reply) ==
    /\ reply.t = "response"
    /\ reply.body.has_candidates
    /\ Len(reply.body.candidates) = 1
    /\ reply.body.candidates[1].has_content
    /\ Len(reply.body.candidates[1].parts) = 1
    /\ reply.body.candidates[1].parts[1].has_text

Leaf(reply) == reply.body.candidates[1].parts[1].text

JsonValues(text) == SelectSeq(text, LAMBDA l : l.lx = "json")

\* the text, its code block markers and outer white space aside, is the text
\* of one JSON value
IsJson(text) ==
    /\ \A i \in 1..Len(text) : text[i].lx # "prose"
    /\ Len(JsonValues(text)) = 1

IsJsonObject(text) == IsJson(text) /\ JsonValues(text)[1].val.t = "dict"

\* analyze_issue reached the extraction service for this issue
Extracted(o) == o.record # "labels_null"

\* compare_skills was called for this issue
Compared(o) ==
    /\ Extracted(o)
    /\ o.requirements.t # "null"
    /\ (o.requirements.t = "num" => o.requirements.v # 0)
    /\ (o.requirements.t # "num" => o.requirements.v # <<>>)

\* the leaf text of the answer to a prompt of this issue satisfies Bad
BadExtraction(o, Bad(_)) ==
    Extracted(o) /\ HasLeaf(o.extraction) /\ Bad(Leaf(o.extraction))
BadComparison(o, Bad(_)) ==
    Compared(o) /\ HasLeaf(o.comparison) /\ Bad(Leaf(o.comparison))

NotJsonObject(text) == ~IsJsonObject(text)
NotJson(text) == ~IsJson(text)
JsonNotObject(text) == IsJson(text) /\ ~IsJsonObject(text)

\* the step processes an issue, drops it and leaves the loop running
DropsIssue ==
    /\ issue_matches' = issue_matches
    /\ processed' = processed + 1
    /\ epc' = "loop"

NonEmpty(x) ==
    /\ x.t # "null"
    /\ (x.t = "num" => x.v # 0)
    /\ (x.t # "num" => x.v # <<>>)

\* the comparison result of the issue has a number as match_percentage
HasPercentage(o) ==
    /\ o.skill_match.t = "dict"
    /\ o.skill_match.v # <<>>
    /\ "match_percentage" \in DOMAIN o.skill_match
    /\ o.skill_match.match_percentage.t = "num"

\* C12 as stated: an issue is among the candidates if and only if the
\* extraction returned a non-empty result for it, the comparison returned a
\* non-empty result and the rounded score is at least 3.0; it then carries
\* that score (80 % gives 8.0, 10 % is left out)
C12_EmittedIffNonEmptyAndScore ==
    (epc = "loop" /\ eout.seen) =>
        LET o == eout.outcome IN
        /\ LastIncluded <=>
              /\ Extracted(o)
              /\ NonEmpty(o.requirements)
              /\ NonEmpty(o.skill_match)
              /\ HasPercentage(o)
              /\ calculate_score_out_of_10(o.skill_match.match_percentage.v) >= 30
        /\ LastIncluded =>
              /\ issue_matches[Len(issue_matches)].match_score =
                    calculate_score_out_of_10(o.skill_match.match_percentage.v)
              /\ o.skill_match.match_percentage.v = 800 =>
                    issue_matches[Len(issue_matches)].match_score = 80

\* the labels of the issue record are objects, as lines 120 and 149 read them
LabelsWellFormed(o) == o.record = "ok"

\* C12, amended: an issue with well-formed labels is among the candidates if
\* and only if the extraction returned a non-empty JSON object for it, the
\* comparison returned a non-empty JSON object with a number as
\* match_percentage and the rounded score is at least 3.0; it then carries
\* that score (80 % gives 8.0, 10 % is left out); an issue whose labels are
\* not objects is never among them
C12_EmittedIffObjectsAndScore ==
    (epc = "loop" /\ eout.seen) =>
        LET o == eout.outcome IN
        /\ LastIncluded <=>
              /\ LabelsWellFormed(o)
              /\ NonEmpty(o.requirements)
              /\ o.requirements.t = "dict"
              /\ HasPercentage(o)
              /\ calculate_score_out_of_10(o.skill_match.match_percentage.v) >= 30
        /\ LastIncluded =>
              /\ issue_matches[Len(issue_matches)].match_score =
                    calculate_score_out_of_10(o.skill_match.match_percentage.v)
              /\ o.skill_match.match_percentage.v = 800 =>
                    issue_matches[Len(issue_matches)].match_score = 80

C12_Witness ==
    /\ epc = "loop"
    /\ processed = 2
    /\ eout.seen
    /\ eout.outcome.record = "ok"
    /\ eout.outcome.requirements = Requirements
    /\ HasPercentage(eout.outcome)
    /\ eout.outcome.skill_match.match_percentage.v = 100
    /\ Len(issue_matches) = 1
    /\ issue_matches[1].issue_title = 1
    /\ issue_matches[1].match_percentage = 800
    /\ issue_matches[1].match_score = 80

-----------------------------------------------------------------------------
(* Claims about processes sharing the cache *)

\* C16: with two processes saving the same key while a third looks it up,
\* every read finds no file or the complete record of one writer, and once
\* both writers are done the file holds the record of the one that finished
\* last
C16_NoTornEntry ==
    /\ obs.k = "file" => \E w \in Writers : obs.bytes = RecordText(w)
    /\ Len(closed) = 2 => file.bytes = RecordText(closed[2])

-----------------------------------------------------------------------------
(* Claims about the tech-profile builder *)

\* C17: two runs of get_user_tech_profile on the same profile and
\* repositories return the same mapping, whatever the order in which the
\* repositories, the topics and the detected technologies are listed and
\* whatever the iteration order of the four sets.
C17_RunsAgree ==
    Len(outputs) = 2 => outputs[1] = outputs[2]

\* two runs completed, the second on a different listing, a category with
\* more than one string
C17_Witness ==
    /\ Len(outputs) = 2
    /\ tp_in # given
    /\ \E c \in DOMAIN outputs[2] : Len(outputs[2][c]) > 1

\* C18: every list of a returned mapping is in strictly ascending order (so
\* sorted and without a repeated string) and none is empty: a category whose
\* set is empty has no key, and every other category has one.
C18_SortedDistinctNonEmpty ==
    \A r \in 1..Len(outputs) :
        /\ \A c \in DOMAIN outputs[r] :
              /\ outputs[r][c] # <<>>
              /\ \A i \in 1..(Len(outputs[r][c]) - 1) :
                    StrLess(outputs[r][c][i], outputs[r][c][i + 1])
        /\ ppc = "done" /\ r = Len(outputs) =>
              DOMAIN outputs[r] =
                  {c \in {Categories[i] : i \in 1..4} : tech_profile[c] # <<>>}

\* a mapping returned with a list of several strings, one of them met more
\* than once in the input, and with a category left out
C18_Witness ==
    /\ ppc = "done"
    /\ Len(outputs) = 1
    /\ tech_profile.tools = <<>>
    /\ "tools" \notin DOMAIN outputs[1]
    /\ "languages" \in DOMAIN outputs[1]
    /\ Len(outputs[1].languages) > 1
    /\ Has(given.pinned_repositories[1].languages, Chars("Python"))
    /\ Has(given.pinned_repositories[1].topics, Chars("python"))
    /\ given.repositories = <<>>

-----------------------------------------------------------------------------
(* Claims about the order of the returned list *)

\* the tuple (-match_percentage, -len(matching_skills), repo_name) of a
Key3(a) ==
    <<0 - a.match_percentage, 0 - Len(a.matching_skills.v), a.repo_name>>

\* s <= t for two such tuples, compared element by element from the left
TupleLeq(s, t) ==
    \/ s[1] < t[1]
    \/ s[1] = t[1] /\ s[2] < t[2]
    \/ s[1] = t[1] /\ s[2] = t[2] /\ (s[3] = t[3] \/ StrLess(s[3], t[3]))

\* C20: for every two adjacent items a, b of the returned recommended_issues
\* the tuple (-a.match_percentage, -len(a.matching_skills), a.repo_name) is
\* less than or equal to that of b: percentage descending, then number of
\* matching skills descending, then repository name ascending.
C20_AdjacentInKeyOrder ==
    result.t = "ok" =>
        \A k \in 1..(Len(result.recommended_issues) - 1) :
            TupleLeq(Key3(result.recommended_issues[k]),
                     Key3(result.recommended_issues[k + 1]))

\* three items returned in another order than the file's: equal percentages
\* told apart by the number of skills, and equal numbers of skills told apart
\* by the repository name
C20_Witness ==
    /\ result.t = "ok"
    /\ Len(result.recommended_issues) = 3
    /\ candidates # result.recommended_issues
    /\ LET a == Key3(result.recommended_issues[1])
           b == Key3(result.recommended_issues[2])
           c == Key3(result.recommended_issues[3])
       IN /\ a[1] = b[1] /\ a[2] < b[2]
          /\ b[1] = c[1] /\ b[2] = c[2] /\ StrLess(b[3], c[3])
    /\ \E i, j \in 1..3 :
          /\ i < j
          /\ candidates[i] = result.recommended_issues[3]
          /\ candidates[j] = result.recommended_issues[2]

-----------------------------------------------------------------------------
(* Claims about the top-level analysis *)

\* C19: analyze_github_user never raises to its caller.  After an empty
\* profile, repository list or tech profile, an absent or invalid issues
\* file, an exception anywhere in the pipeline, or with no issue past the
\* threshold, it returns None; otherwise it returns a mapping whose skills
\* have all four categories and which recommends at least one issue.
C19_NoneOrResult ==
    /\ returned.t # "raised"
    /\ returned.t # "pending" =>
          IF \/ failure # "none"
             \/ candidates = <<>>
             \/ \E i \in 1..Len(candidates) : ~HasLen(candidates[i].matching_skills)
          THEN returned = ReturnNone
          ELSE /\ returned.t = "ok"
               /\ DOMAIN returned.skills =
                     {"languages", "frameworks", "tools", "domains"}
               /\ Len(returned.recommended_issues) >= 1

\* the issues file held JSON that is no object: the exception of line 112
\* was met with the skills prepared, and the caller got None
C19_Witness ==
    /\ failure = "not_object"
    /\ returned.t = "none"
    /\ user_skills_data.languages # <<>>
    /\ user_skills_data.tools = <<>>

-----------------------------------------------------------------------------
(* Claims about the classification of the tech-profile builder *)

\* the strings of a list
Elems(xs) == {xs[i] : i \in 1..Len(xs)}

\* the topics of the pinned repositories of the current run
PinnedTopics ==
    UNION {Elems(tp_in.pinned_repositories[i].topics) :
             i \in 1..Len(tp_in.pinned_repositories)}
PinnedLanguages ==
    UNION {Elems(tp_in.pinned_repositories[i].languages) :
             i \in 1..Len(tp_in.pinned_repositories)}

\* the lower-cased topic holds a keyword of the table
InTable(table, topic) ==
    \E i \in 1..Len(table) : Contains(Lower(topic), table[i])

IsLanguageTopic(t) == InTable(TopicLanguages, t)
IsFrameworkTopic(t) == ~IsLanguageTopic(t) /\ InTable(TopicFrameworks, t)
IsToolTopic(t) ==
    ~IsLanguageTopic(t) /\ ~InTable(TopicFrameworks, t) /\ InTable(TopicTools, t)
IsDomainTopic(t) ==
    ~IsLanguageTopic(t) /\ ~InTable(TopicFrameworks, t) /\ ~InTable(TopicTools, t)

\* C21: once the pinned repositories are processed, every topic is in exactly
\* one category: languages (capitalised) when it holds a language keyword,
\* else frameworks when it holds a framework keyword, else tools when it
\* holds a tool keyword, else domains; a topic holding both a language and a
\* tool keyword is a language.
C21_TopicInFirstMatchingCategory ==
    ppc = "repositories" =>
        /\ Elems(tech_profile.languages) =
              PinnedLanguages \cup
                  {Capitalize(t) : t \in {u \in PinnedTopics : IsLanguageTopic(u)}}
        /\ Elems(tech_profile.frameworks) =
              {t \in PinnedTopics : IsFrameworkTopic(t)}
        /\ Elems(tech_profile.tools) = {t \in PinnedTopics : IsToolTopic(t)}
        /\ Elems(tech_profile.domains) = {t \in PinnedTopics : IsDomainTopic(t)}

\* the pinned repositories processed, among their topics one of each
\* category and one that holds a language and a tool keyword
C21_Witness ==
    /\ ppc = "repositories"
    /\ \E t \in PinnedTopics :
          /\ InTable(TopicLanguages, t)
          /\ InTable(TopicTools, t)
          /\ Has(tech_profile.languages, Capitalize(t))
          /\ ~Has(tech_profile.tools, t)
    /\ \E t \in PinnedTopics : IsFrameworkTopic(t)
    /\ \E t \in PinnedTopics : IsToolTopic(t)
    /\ \E t \in PinnedTopics : IsDomainTopic(t)

\* the class of a detected technology
IsKnownFramework(tech) ==
    tech \in {Chars("React"), Chars("Vue.js"), Chars("Angular"),
              Chars("Django"), Chars("Flask"), Chars("Spring"), Chars("Express")}
IsKnownTool(tech) ==
    tech \in {Chars("Docker"), Chars("Kubernetes"), Chars("Node.js"),
              Chars("MongoDB"), Chars("PostgreSQL")}
DetectedTechs ==
    UNION {Elems(tp_in.repositories[i].detected_tech_stack) :
             i \in 1..Len(tp_in.repositories)}

\* C22: within a run no step removes a string from one of the four sets, the
\* returned list of each category holds every string its set held, and the
\* step over the repositories puts each detected technology into frameworks
\* if it is a known framework, into tools if it is a known tool, and into
\* languages otherwise.
C22_SetsOnlyGrow ==
    [][ /\ ppc' # "pinned" =>
              \A c \in {"languages", "frameworks", "tools", "domains"} :
                  Elems(tech_profile[c]) \subseteq Elems(tech_profile'[c])
        /\ ppc = "return" =>
              \A c \in {"languages", "frameworks", "tools", "domains"} :
                  tech_profile[c] # <<>> =>
                      /\ c \in DOMAIN outputs'[Len(outputs')]
                      /\ Elems(tech_profile[c]) =
                            Elems(outputs'[Len(outputs')][c])
        /\ ppc = "repositories" =>
              \A tech \in DetectedTechs :
                  Has(tech_profile'[IF IsKnownFramework(tech) THEN "frameworks"
                                    ELSE IF IsKnownTool(tech) THEN "tools"
                                    ELSE "languages"], tech)
      ]_vars

\* a run ended with strings from the pinned repositories, from the
\* repositories and from the README in its sets, a detected technology of
\* each class among them
C22_Witness ==
    /\ ppc = "done"
    /\ Has(tech_profile.domains, Chars("cli"))
    /\ Has(tech_profile.domains, Chars("web"))
    /\ Has(tech_profile.frameworks, Chars("Flask"))
    /\ Has(tech_profile.frameworks, Chars("React"))
    /\ Has(tech_profile.tools, Chars("Docker"))
    /\ Has(tech_profile.languages, Chars("Flutter"))
    /\ Has(outputs[Len(outputs)].languages, Chars("Flutter"))

-----------------------------------------------------------------------------
(* Claims about the match score *)

\* C23: every recommendation appended to issue_matches has a match_score
\* between 3.0 and 10.0 (30 and 100 tenths), whatever the comparison
\* returned
C23_ScoreWithinRange ==
    \A i \in 1..Len(issue_matches) :
        /\ issue_matches[i].match_score >= MinScore
        /\ issue_matches[i].match_score <= 100

-----------------------------------------------------------------------------
(* Claims about writes to the cache and about retries *)

\* a request of the invocation r was answered 200
SomeOk(r) == \E i \in 1..Len(r.asked) : r.asked[i].k = "ok"

\* the invocation r was ended by an exception: in the quota probe, or in a
\* request outside the inner handlers of the manifest requests
EndedByException(r) ==
    \/ r.raised
    \/ "probe" \in r.faults
    \/ /\ r.asked # <<>>
       /\ r.asked[Len(r.asked)].k = "error"
       /\ r.asked[Len(r.asked)].stage \notin {"package_json", "pubspec_yaml"}

\* the step ends an invocation of a fetch method
Returns == pc # "idle" /\ pc' = "idle"

\* C24: the cache changes only when a fetch method ends; when it ends in
\* failure (no request of it answered 200, or an exception ended it) the
\* cache is as before; when it ends with data, the entry of its key holds
\* that data, stored now, whatever was there
C24_SavedOnlySuccess ==
    [][ /\ ~Returns => cache' = cache
        /\ Returns /\ (~SomeOk(ret') \/ EndedByException(ret')) =>
              cache' = cache
        /\ Returns /\ SomeOk(ret') /\ ~EndedByException(ret')
              /\ Truthy(ret'.value) =>
              /\ GetCachePath(ret'.key) \in DOMAIN cache'
              /\ cache'[GetCachePath(ret'.key)] =
                    [timestamp |-> clock, data |-> ret'.value]
      ]_vars

\* the entry of key k in the files, absent as None
EntryOf(files, k) ==
    IF GetCachePath(k) \in DOMAIN files THEN files[GetCachePath(k)]
    ELSE [timestamp |-> 0, data |-> JNull]

TwicePut ==
    /\ last.ev = "put"
    /\ GetCachePath(last.key) \in DOMAIN last.before
    /\ EntryOf(last.before, last.key).data # last.value
    /\ EntryOf(last.before, last.key).timestamp < last.at
    /\ \E k \in PutKeys : /\ SafeKey(k) # SafeKey(last.key)
                          /\ GetCachePath(k) \in DOMAIN cache
NeverReissued(r) ==
    \A i, j \in 1..Len(r.asked) :
        (i < j /\ r.asked[i].k # "ok") =>
            <<r.asked[i].stage, r.asked[i].item>> #
                <<r.asked[j].stage, r.asked[j].item>>

\* the i-th request of r was the last and the method returned its empty value
EndedEmptyAt(r, i) == i = Len(r.asked) /\ r.value = Empty(r.method)

\* C26: a fetch method never issues a failed request again, and returns its
\* empty value after the first request that failed
C26_EmptyAfterFirstFailure ==
    ret.method # "none" =>
        /\ NeverReissued(ret)
        /\ \A i \in 1..Len(ret.asked) :
              ret.asked[i].k # "ok" => EndedEmptyAt(ret, i)

\* C26, amended: a fetch method never issues a failed request again; a
\* transport error ends it with its empty value, except in the two manifest
\* requests of detect_tech_stack; a non-200 answer ends every method but
\* detect_tech_stack with its empty value when it is the answer to the
\* method's first request; after any other failure the method goes on to
\* its next endpoint
C26_NoRetryFallbackOnly ==
    ret.method # "none" =>
        /\ NeverReissued(ret)
        /\ \A i \in 1..Len(ret.asked) :
              /\ (ret.asked[i].k = "error"
                  /\ ret.asked[i].stage \notin {"package_json", "pubspec_yaml"})
                    => EndedEmptyAt(ret, i)
              /\ (ret.asked[i].k = "status" /\ i = 1
                  /\ ret.method # "detect_tech_stack")
                    => EndedEmptyAt(ret, i)

\* detect_tech_stack got 404 for main, asked for master, fell back to the
\* contents listing and returned technologies
C26_Witness ==
    /\ ret.method = "detect_tech_stack"
    /\ Len(ret.asked) >= 3
    /\ ret.asked[1].stage = "main" /\ ret.asked[1].k = "status"
    /\ ret.asked[2].stage = "tree_master" /\ ret.asked[2].k = "status"
    /\ ret.asked[3].stage = "contents" /\ ret.asked[3].k = "ok"
    /\ Truthy(ret.value)

-----------------------------------------------------------------------------
(* Claims about the detected tech stack *)

DependencyDirs ==
    {Chars("node_modules/"), Chars("vendor/"), Chars("dist/"), Chars("build/")}

\* the path lies under one of the four directories, at any depth
UnderDependencyDir(path) ==
    \E d \in DependencyDirs :
        \/ Len(path) >= Len(d) /\ SubSeq(path, 1, Len(d)) = d
        \/ Contains(path, <<"/">> \o d)

\* C30: in the mapping detect_tech_stack returns no evidence path lies under
\* node_modules/, vendor/, dist/ or build/, whether the files came from a
\* tree or from the contents listing, and no evidence list holds a path
\* twice
C30_NoDependencyPathNoDuplicate ==
    (ret.method = "detect_tech_stack" /\ ~ret.raised) =>
        \A i \in 1..Len(ret.value.v) :
            LET files == ret.value.v[i].files IN
            /\ \A j \in 1..Len(files) : ~UnderDependencyDir(files[j])
            /\ \A j, k \in 1..Len(files) : files[j] = files[k] => j = k

\* the tree held package.json and a file under node_modules/, the manifest
\* declared dependencies: Node.js, found in the manifest and by its
\* indicator, has package.json once, JavaScript has it without the file
\* under node_modules/
C30_Witness ==
    /\ ret.method = "detect_tech_stack"
    /\ ret.asked # <<>>
    /\ ret.asked[1].k = "ok"
    /\ \E i, j \in 1..Len(ret.value.v) :
          /\ ret.value.v[i] = [tech |-> "Node.js",
                               files |-> <<Chars("package.json")>>]
          /\ ret.value.v[j] = [tech |-> "JavaScript",
                               files |-> <<Chars("package.json")>>]

-----------------------------------------------------------------------------
(* Claims about the enrichment of the listed repositories *)

\* the repositories the list call gave, "issued" holding it first
ListGiven == IF issued = <<>> THEN <<>> ELSE issued[1].v

\* the repositories whose two enrichment calls both came back
Enriched ==
    { i \in 1..Len(ListGiven) :
        2 * i + 1 <= Len(issued) /\ issued[2 * i + 1].k # "raised" }

\* what the repository at i gives when only its own two answers count
OwnEntry(i) ==
    Appended(<<>>, ListGiven[i], issued[2 * i].v, issued[2 * i + 1].v)

RECURSIVE OwnEntries(_)
OwnEntries(n) ==
    IF n = 0 THEN <<>>
    ELSE OwnEntries(n - 1) \o (IF n \in Enriched THEN OwnEntry(n) ELSE <<>>)

\* the enrichment calls follow a list call that gave a non-empty list, two
\* for each repository, languages first, in the order of the list
InListOrder ==
    \A n \in 2..Len(issued) :
        /\ issued[1].call = "list" /\ issued[1].k = "ok" /\ issued[1].v # <<>>
        /\ n \div 2 <= Len(ListGiven)
        /\ issued[n].name = ListGiven[n \div 2].name
        /\ issued[n].call = IF n % 2 = 0 THEN "languages" ELSE "tech_stack"

SomeCallRaised == \E n \in 1..Len(issued) : issued[n].k = "raised"
SomeEnrichmentFailed ==
    \E n \in 2..Len(issued) : issued[n].k \in {"failed", "raised"}

\* C27: the language and tech-stack calls are made only after the list call
\* gave a non-empty list, repository by repository in list order, and when
\* the enrichment of a repository has failed the output still holds every
\* other repository with the entry its own answers give
C27_OrderedAndIndependent ==
    /\ InListOrder
    /\ (fpc = "done" /\ SomeEnrichmentFailed) =>
          /\ enhanced.t = "list"
          /\ enhanced.v = OwnEntries(Len(ListGiven))

\* the same with the failures left out that raise: a failed request that
\* ends the client call with its empty value leaves the other entries as
\* they are
C27_IndependentUnlessRaised ==
    /\ InListOrder
    /\ (fpc = "done" /\ issued # <<>> /\ ~SomeCallRaised) =>
          /\ enhanced.t = "list"
          /\ enhanced.v = OwnEntries(Len(ListGiven))

-----------------------------------------------------------------------------
(* Claims about the order of the LLM calls *)

\* a call that has started is the last entry or is followed by its own end,
\* and every end follows its own start: no two calls overlap
OneAtATime ==
    \A p \in 1..Len(timeline) :
        /\ timeline[p].ev = "start" /\ p < Len(timeline) =>
              /\ timeline[p + 1].ev = "end"
              /\ timeline[p + 1].call = timeline[p].call
              /\ timeline[p + 1].issue = timeline[p].issue
        /\ timeline[p].ev = "end" =>
              /\ p > 1
              /\ timeline[p - 1] = Started(timeline[p].call, timeline[p].issue)

\* C28: the calls are made one at a time and issue by issue in the order
\* the issues are read; the extraction call of an issue follows the delay
\* of one second and has ended before the comparison call of the issue
\* starts; the comparison call is made only after an extraction that gave
\* a non-empty result
C28_CallsInLoopOrder ==
    /\ OneAtATime
    /\ \A p, q \in 1..Len(timeline) :
          p < q => timeline[p].issue <= timeline[q].issue
    /\ \A p \in 1..Len(timeline) :
          /\ timeline[p] = Started("extraction", timeline[p].issue) =>
                p > 1 /\ timeline[p - 1] = Delayed(timeline[p].issue, 1)
          /\ timeline[p] = Started("comparison", timeline[p].issue) =>
                p > 1 /\ timeline[p - 1] =
                            Ended("extraction", timeline[p].issue, TRUE)

\* two issues were read: the extraction of the first gave nothing and no
\* comparison was made for it, the second got both calls
C28_Witness ==
    /\ lpc = "done"
    /\ timeline = << Delayed(1, 1), Started("extraction", 1),
                     Ended("extraction", 1, FALSE),
                     Delayed(2, 1), Started("extraction", 2),
                     Ended("extraction", 2, TRUE),
                     Started("comparison", 2), Ended("comparison", 2, TRUE) >>

-----------------------------------------------------------------------------
(* Claims about the fetches of one run *)

\* C29: in one run of analyze_github_user the profile is built once, and no
\* profile resource is requested from the upstream service more than once
C29_ProfileBuiltOnce ==
    /\ profiles_built <= 1
    /\ \A r \in DOMAIN requested : requested[r] <= 1


-----------------------------------------------------------------------------
(* Claims about the ingestion of the issues *)

RECURSIVE Joined(_)
\* the chunks one after the other
Joined(chunks) ==
    IF chunks = <<>> THEN <<>> ELSE Head(chunks) \o Joined(Tail(chunks))

\* C34: chunked(lst, n) partitions the list: the chunks yielded, joined in
\* order, are lst once the generator has returned (and a prefix of it
\* before), every chunk has at most n elements and only the last one may
\* have fewer
C34_ChunksPartition ==
    /\ exhausted /\ size > 0 => Joined(yielded) = lst
    /\ Len(Joined(yielded)) <= Len(lst)
    /\ Joined(yielded) = SubSeq(lst, 1, Len(Joined(yielded)))
    /\ \A k \in 1..Len(yielded) :
          /\ Len(yielded[k]) <= size
          /\ k < Len(yielded) => Len(yielded[k]) = size

\* a list of four in chunks of three: the last chunk is short
C34_Witness ==
    /\ exhausted
    /\ Len(lst) = 4
    /\ size = 3
    /\ Len(yielded) = 2
    /\ Len(yielded[2]) = 1

\* C31: the issue nodes kept under a repository's name are those returned
\* for that repository, in whichever batch it was queried, and the nodes
\* returned for a repository are kept under its name
C31_IssuesUnderOwnName ==
    /\ \A name \in DOMAIN all_issues :
          all_issues[name].stored => all_issues[name].of = name
    /\ \A repo \in queried : all_issues[repo] = NodesOf(repo)

\* the places of the base list that `places` names, one for each returned
\* repository, go upwards
Increasing(places) ==
    \A j, k \in DOMAIN places : j < k => places[j] < places[k]

\* C32: the list get_user_repositories returns is a subsequence of the base
\* list in its order, each entry the base entry with the language stats and
\* the tech stack found for it, and a base entry is left out exactly when
\* its language stats and its tech stack are empty and it has no
\* description
C32_SubsequenceOfBaseList ==
    enhanced.t = "list" =>
        \E places \in [1..Len(enhanced.v) -> 1..Len(ListGiven)] :
            /\ Increasing(places)
            /\ \A j \in 1..Len(enhanced.v) :
                  LET base == ListGiven[places[j]] IN
                  enhanced.v[j] =
                      [name |-> base.name, description |-> base.description,
                       language_stats |-> issued[2 * places[j]].v,
                       detected_tech_stack |-> issued[2 * places[j] + 1].v]
            /\ \A i \in 1..Len(ListGiven) :
                  (\A j \in 1..Len(enhanced.v) : places[j] # i) <=>
                      /\ issued[2 * i].v = <<>>
                      /\ issued[2 * i + 1].v = <<>>
                      /\ ListGiven[i].description = <<>>

\* two repositories were listed: the first, with nothing found and no
\* description, is left out, the second is returned with its language stats
C32_Witness ==
    /\ fpc = "done"
    /\ enhanced.t = "list"
    /\ Len(ListGiven) = 2
    /\ Len(enhanced.v) = 1
    /\ enhanced.v[1].name = ListGiven[2].name
    /\ enhanced.v[1].language_stats # <<>>

-----------------------------------------------------------------------------
(* Claims about the user profile *)

FourKeys == {"pinned_repositories", "profile_readme", "recent_events", "gists"}

\* C33: when the base user lookup gives an empty result get_user_profile
\* returns {} and none of the four further calls is made; otherwise the
\* profile it returns holds the base fields as they were given and exactly
\* the four further keys, whatever the four calls gave
C33_ShortCircuitOrFullProfile ==
    /\ Len(up_calls) > 1 => up_calls[1].ending = "some"
    /\ user_profile.t = "dict" =>
          IF up_calls[1].ending = "failed"
          THEN DOMAIN user_profile.v = {} /\ Len(up_calls) = 1
          ELSE /\ DOMAIN user_profile.v =
                     {"name", "bio", "location", "company", "public_repos"}
                         \cup FourKeys
               /\ \A f \in {"name", "bio", "location", "company", "public_repos"} :
                     user_profile.v[f] = profile_data[f]
               /\ Len(up_calls) = 5

\* the user is missing: {} is returned after the one call
C33_Witness ==
    /\ upc = "done"
    /\ user_profile.t = "dict"
    /\ DOMAIN user_profile.v = {}
    /\ up_calls = <<Made("get_user_data", "failed")>>

=============================================================================
